---------------------------- MODULE Spec2Model ----------------------------
(***************************************************************************)
(* EcoCoin: the detection pipeline (ai/classifier.py), the command-line    *)
(* orchestration loop (ai/camera.py, CameraDetector) and the kiosk loop    *)
(* with its inference worker (ui/kiosk.py).                                *)
(*                                                                         *)
(* Units.  Confidences and the IoU threshold are integer percents          *)
(* (0.30 -> 30, 0.45 -> 45, 0.55 -> 55).  Pixel coordinates that the code  *)
(* holds as floats are exact rationals here: a coordinate is an integer    *)
(* number of sub-pixel units, and int() is truncation towards zero.        *)
(***************************************************************************)
EXTENDS Integers, Sequences, FiniteSets, TLC

(***************************************************************************)
(* Bounds of the model                                                     *)
(***************************************************************************)
\* longest raw backend output (anchors / boxes) drawn for one frame
MaxRaw == 2
\* most circles the Hough transform reports for one frame
MaxCircles == 2
\* frames the loops read before the model stops reading
MaxFrames == 7

(***************************************************************************)
(* ai/config.py                                                            *)
(***************************************************************************)
\* WASTE_CATEGORIES with a reward for the unknown bucket
WASTE_CATEGORIES_UnknownRewarded ==
  [ bottle  |-> [name_uz |-> "Plastik shisha",  material |-> "plastic",
                 ecocoin_reward |-> 5, bin_color |-> "sariq"],
    cup     |-> [name_uz |-> "Stakan / Piyola", material |-> "plastic",
                 ecocoin_reward |-> 5, bin_color |-> "sariq"],
    glass   |-> [name_uz |-> "Shisha idish",    material |-> "glass",
                 ecocoin_reward |-> 5, bin_color |-> "yashil"],
    can     |-> [name_uz |-> "Metall quti",     material |-> "metal",
                 ecocoin_reward |-> 6, bin_color |-> "ko'k"],
    unknown |-> [name_uz |-> "Noma'lum",        material |-> "unknown",
                 ecocoin_reward |-> 1, bin_color |-> "kulrang"] ]

\* the table as the module defines it when it is imported
WASTE_CATEGORIES ==
  [ bottle  |-> [name_uz |-> "Plastik shisha",  material |-> "plastic",
                 ecocoin_reward |-> 5, bin_color |-> "sariq"],
    cup     |-> [name_uz |-> "Stakan / Piyola", material |-> "plastic",
                 ecocoin_reward |-> 5, bin_color |-> "sariq"],
    glass   |-> [name_uz |-> "Shisha idish",    material |-> "glass",
                 ecocoin_reward |-> 5, bin_color |-> "yashil"],
    can     |-> [name_uz |-> "Metall quti",     material |-> "metal",
                 ecocoin_reward |-> 6, bin_color |-> "ko'k"],
    unknown |-> [name_uz |-> "Noma'lum",        material |-> "unknown",
                 ecocoin_reward |-> 0, bin_color |-> "kulrang"] ]

YOLO_TO_WASTE ==
  [ n \in {"bottle", "cup", "wine glass", "bowl", "vase", "book", "handbag",
           "suitcase"} |->
      CASE n = "bottle"     -> "bottle"
        [] n = "cup"        -> "cup"
        [] n = "wine glass" -> "glass"
        [] n = "bowl"       -> "glass"
        [] n = "vase"       -> "glass"
        [] n = "book"       -> "paper"
        [] n = "handbag"    -> "plastic_bag"
        [] n = "suitcase"   -> "cardboard" ]

CONFIDENCE_THRESHOLD == 30
IOU_THRESHOLD == 45
CIRCLE_DETECTION == TRUE
CIRCLE_MIN_RADIUS == 20
CIRCLE_MAX_RADIUS == 150
CAMERA_WIDTH == 640
CAMERA_HEIGHT == 480
CAMERA_BACKEND == "auto"

(***************************************************************************)
(* ai/classifier.py: vocabulary                                            *)
(***************************************************************************)
COCO_NAMES ==
  << "person", "bicycle", "car", "motorcycle", "airplane", "bus", "train",
     "truck", "boat", "traffic light", "fire hydrant", "stop sign",
     "parking meter", "bench", "bird", "cat", "dog", "horse", "sheep", "cow",
     "elephant", "bear", "zebra", "giraffe", "backpack", "umbrella",
     "handbag", "tie", "suitcase", "frisbee", "skis", "snowboard",
     "sports ball", "kite", "baseball bat", "baseball glove", "skateboard",
     "surfboard", "tennis racket", "bottle", "wine glass", "cup", "fork",
     "knife", "spoon", "bowl", "banana", "apple", "sandwich", "orange",
     "broccoli", "carrot", "hot dog", "pizza", "donut", "cake", "chair",
     "couch", "potted plant", "bed", "dining table", "toilet", "tv",
     "laptop", "mouse", "remote", "keyboard", "cell phone", "microwave",
     "oven", "toaster", "sink", "refrigerator", "book", "clock", "vase",
     "scissors", "teddy bear", "hair drier", "toothbrush" >>

\* The class ids (0-based, as in the code) whose scores the model tracks:
\* person, bottle, book, and 80, an id past the end of COCO_NAMES.
ModelClassIds == {0, 39, 73, 80}

\* model.names of the ultralytics model: the COCO vocabulary, 0-based.
\* A custom model may spell a label with capitals; id 39 does.
ModelNames(class_id) ==
  IF class_id = 39 THEN "Bottle" ELSE COCO_NAMES[class_id + 1]

\* str.lower() on the labels of the vocabulary
Lower(s) == IF s = "Bottle" THEN "bottle" ELSE s

(***************************************************************************)
(* Arithmetic helpers                                                      *)
(***************************************************************************)
Min(a, b) == IF a <= b THEN a ELSE b
Max(a, b) == IF a >= b THEN a ELSE b

\* int(a / b) for b > 0: truncation towards zero
TruncDiv(a, b) == IF a >= 0 THEN a \div b ELSE -((-a) \div b)

RECURSIVE Gcd(_, _)
Gcd(a, b) == IF b = 0 THEN a ELSE Gcd(b, a % b)

\* all sequences over S of length at most n
SeqUpTo(S, n) == UNION {[1..k -> S] : k \in 0..n}

(***************************************************************************)
(* A frame is known by its size and by what the external engines report on *)
(* it: the ONNX session's output rows, ultralytics' boxes, and the circles *)
(* of cv2.HoughCircles.                                                    *)
(*   anchor: [cx, cy, w, h, scores]   (model space, scores per class id)   *)
(*   box:    [cls, conf, xyxy]        (xyxy in half pixels of the frame)   *)
(*   circle: [cx, cy, r]              (pixels, after np.uint16(around))    *)
(***************************************************************************)
INPUT_SIZE == 640

\* DetectionResult taking the reward and the material of "bottle" whatever
\* the category
DetectionResult_BottleInfo(class_name, waste_category, confidence, bbox, name_uz) ==
  [ class_name     |-> class_name,
    waste_category |-> waste_category,
    confidence     |-> confidence,
    bbox           |-> bbox,
    ecocoin_reward |-> WASTE_CATEGORIES["bottle"].ecocoin_reward,
    material       |-> WASTE_CATEGORIES["bottle"].material,
    name_uz        |-> name_uz ]

\* a DetectionResult as the three paths build it: reward and material are
\* cat_info's, the name is what the path passes
DetectionResult(class_name, waste_category, confidence, bbox, name_uz) ==
  [ class_name     |-> class_name,
    waste_category |-> waste_category,
    confidence     |-> confidence,
    bbox           |-> bbox,
    ecocoin_reward |-> WASTE_CATEGORIES[waste_category].ecocoin_reward,
    material       |-> WASTE_CATEGORIES[waste_category].material,
    name_uz        |-> name_uz ]

map_to_waste_category(class_name) ==
  IF Lower(class_name) \in DOMAIN YOLO_TO_WASTE
    THEN YOLO_TO_WASTE[Lower(class_name)]
    ELSE "unknown"

\* the filter both learned-model paths apply to a mapped category
KeepCategory(waste_category) == waste_category \in DOMAIN WASTE_CATEGORIES

\* letterbox: ratio = min(input_w / w, input_h / h) as the fraction rn / rd
\* in lowest terms, and the padding on each side
preprocess_onnx(frame) ==
  LET byW   == INPUT_SIZE * frame.h <= INPUT_SIZE * frame.w
      n     == INPUT_SIZE
      d     == IF byW THEN frame.w ELSE frame.h
      g     == Gcd(n, d)
      rn    == n \div g
      rd    == d \div g
      new_w == (frame.w * rn) \div rd
      new_h == (frame.h * rn) \div rd
  IN  [ rn |-> rn, rd |-> rd,
        pad_x |-> (INPUT_SIZE - new_w) \div 2,
        pad_y |-> (INPUT_SIZE - new_h) \div 2 ]

\* scores.max(axis=1)
MaxScore(a) == CHOOSE s \in {a.scores[c] : c \in DOMAIN a.scores} :
                 \A c \in DOMAIN a.scores : a.scores[c] <= s

\* scores.argmax(axis=1): the first index holding the maximum
ArgMax(a) == CHOOSE c \in DOMAIN a.scores :
               /\ a.scores[c] = MaxScore(a)
               /\ \A k \in DOMAIN a.scores : a.scores[k] = MaxScore(a) => c <= k

\* boxes[mask] with mask = max_scores >= CONFIDENCE_THRESHOLD: the rows kept,
\* in order
RECURSIVE Masked(_)
Masked(rows) ==
  IF rows = <<>> THEN <<>>
  ELSE IF MaxScore(Head(rows)) >= CONFIDENCE_THRESHOLD
         THEN <<Head(rows)>> \o Masked(Tail(rows))
         ELSE Masked(Tail(rows))

\* An anchor's corners in the source frame, cx,cy,w,h -> x1,y1,x2,y2 with the
\* letterbox undone.  The unit is 1 / (2 * rn) pixel, which makes
\* (cx -/+ w/2 - pad) / ratio an integer.
Corners(a, lb) ==
  [ x1 |-> (2 * a.cx - a.w - 2 * lb.pad_x) * lb.rd,
    y1 |-> (2 * a.cy - a.h - 2 * lb.pad_y) * lb.rd,
    x2 |-> (2 * a.cx + a.w - 2 * lb.pad_x) * lb.rd,
    y2 |-> (2 * a.cy + a.h - 2 * lb.pad_y) * lb.rd ]

\* cv2.dnn.NMSBoxes, rectOverlap(a, b) > nms_threshold on [x, y, w, h] boxes
\* built as [x1, y1, x2 - x1, y2 - y1]
Overlap(a, b, nms_threshold) ==
  LET aw == a.x2 - a.x1
      ah == a.y2 - a.y1
      bw == b.x2 - b.x1
      bh == b.y2 - b.y1
      Aa == aw * ah
      Ab == bw * bh
      iw == Min(a.x2, b.x2) - Max(a.x1, b.x1)
      ih == Min(a.y2, b.y2) - Max(a.y1, b.y1)
      Aab == IF iw <= 0 \/ ih <= 0 THEN 0 ELSE iw * ih
  IN  IF Aa + Ab <= 0 THEN TRUE
      ELSE Aab * 100 > nms_threshold * (Aa + Ab - Aab)

\* indices of `scores` above the threshold, by descending score, ties in
\* index order (std::stable_sort)
RECURSIVE ScoreOrder(_, _)
ScoreOrder(scores, idx) ==
  IF idx = {} THEN <<>>
  ELSE LET best == CHOOSE i \in idx :
                     \A j \in idx : \/ scores[j] < scores[i]
                                    \/ (scores[j] = scores[i] /\ i <= j)
       IN  <<best>> \o ScoreOrder(scores, idx \ {best})

RECURSIVE NMSGreedy(_, _, _, _)
NMSGreedy(order, boxes, kept, nms_threshold) ==
  IF order = <<>> THEN kept
  ELSE LET i    == Head(order)
           keep == \A k \in 1..Len(kept) :
                     ~Overlap(boxes[i], boxes[kept[k]], nms_threshold)
       IN  NMSGreedy(Tail(order), boxes,
                     IF keep THEN Append(kept, i) ELSE kept, nms_threshold)

NMSBoxes(boxes, scores, score_threshold, nms_threshold) ==
  NMSGreedy(ScoreOrder(scores, {i \in 1..Len(scores) : scores[i] > score_threshold}),
            boxes, <<>>, nms_threshold)

\* the bbox of an ONNX detection: int() of each corner
OnnxBBox(c, lb) ==
  << TruncDiv(c.x1, 2 * lb.rn), TruncDiv(c.y1, 2 * lb.rn),
     TruncDiv(c.x2, 2 * lb.rn), TruncDiv(c.y2, 2 * lb.rn) >>

RECURSIVE OnnxCollect(_, _, _, _)
OnnxCollect(indices, cand, corners, lb) ==
  IF indices = <<>> THEN <<>>
  ELSE LET i              == Head(indices)
           class_id       == ArgMax(cand[i])
           rest           == OnnxCollect(Tail(indices), cand, corners, lb)
       IN  IF class_id >= Len(COCO_NAMES) THEN rest
           ELSE LET class_name     == COCO_NAMES[class_id + 1]
                    waste_category == map_to_waste_category(class_name)
                IN  IF ~KeepCategory(waste_category) THEN rest
                    ELSE << DetectionResult(class_name, waste_category,
                               MaxScore(cand[i]), OnnxBBox(corners[i], lb),
                               WASTE_CATEGORIES[waste_category].name_uz) >>
                         \o rest

postprocess_onnx(output, lb) ==
  LET cand    == Masked(output)
      corners == [i \in 1..Len(cand) |-> Corners(cand[i], lb)]
      scores  == [i \in 1..Len(cand) |-> MaxScore(cand[i])]
      indices == NMSBoxes(corners, scores, CONFIDENCE_THRESHOLD, IOU_THRESHOLD)
  IN  IF Len(cand) = 0 THEN <<>>
      ELSE OnnxCollect(indices, cand, corners, lb)

detect_onnx(frame) == postprocess_onnx(frame.onnx_output, preprocess_onnx(frame))

\* map(int, box.xyxy[0].tolist())
TorchBBox(box) ==
  << TruncDiv(box.xyxy[1], 2), TruncDiv(box.xyxy[2], 2),
     TruncDiv(box.xyxy[3], 2), TruncDiv(box.xyxy[4], 2) >>

RECURSIVE detect_pytorch_boxes(_)
detect_pytorch_boxes(boxes) ==
  IF boxes = <<>> THEN <<>>
  ELSE LET box            == Head(boxes)
           class_name     == ModelNames(box.cls)
           waste_category == map_to_waste_category(class_name)
           rest           == detect_pytorch_boxes(Tail(boxes))
       IN  IF ~KeepCategory(waste_category) THEN rest
           ELSE << DetectionResult(class_name, waste_category, box.conf,
                      TorchBBox(box),
                      WASTE_CATEGORIES[waste_category].name_uz) >> \o rest

detect_pytorch(frame) == detect_pytorch_boxes(frame.boxes)

CIRCLE_CONFIDENCE == 55

\* the clamped bounding square of one circle
CircleBBox(frame, circle) ==
  << Max(0, circle.cx - circle.r), Max(0, circle.cy - circle.r),
     Min(frame.w, circle.cx + circle.r), Min(frame.h, circle.cy + circle.r) >>

RECURSIVE detect_circles_each(_, _)
detect_circles_each(frame, circles) ==
  IF circles = <<>> THEN <<>>
  ELSE << DetectionResult("circle_bottle", "bottle", CIRCLE_CONFIDENCE,
             CircleBBox(frame, Head(circles)),
             WASTE_CATEGORIES["bottle"].name_uz \o " (yuqoridan)") >>
       \o detect_circles_each(frame, Tail(circles))

\* detect_circles reporting the first circle only
detect_circles_FirstOnly(frame) ==
  IF "bottle" \notin DOMAIN WASTE_CATEGORIES \/ frame.circles = <<>> THEN <<>>
  ELSE detect_circles_each(frame, <<Head(frame.circles)>>)

\* _detect_circles: one detection per circle of cv2.HoughCircles
detect_circles(frame) ==
  IF "bottle" \notin DOMAIN WASTE_CATEGORIES THEN <<>>
  ELSE detect_circles_each(frame, frame.circles)

\* SortByConfidence putting the later of two equal confidences first, as an
\* ascending sort read backwards does
RECURSIVE SortByConfidence_Reversed(_)
SortByConfidence_Reversed(ds) ==
  IF ds = <<>> THEN <<>>
  ELSE LET i == CHOOSE i \in 1..Len(ds) :
                  \A j \in 1..Len(ds) :
                    \/ ds[j].confidence < ds[i].confidence
                    \/ (ds[j].confidence = ds[i].confidence /\ j <= i)
       IN  <<ds[i]>> \o SortByConfidence_Reversed(
             [k \in 1..(Len(ds) - 1) |-> IF k < i THEN ds[k] ELSE ds[k + 1]])

\* detections.sort(key=confidence, reverse=True): stable, descending
RECURSIVE SortByConfidence(_)
SortByConfidence(ds) ==
  IF ds = <<>> THEN <<>>
  ELSE LET i == CHOOSE i \in 1..Len(ds) :
                  \A j \in 1..Len(ds) :
                    \/ ds[j].confidence < ds[i].confidence
                    \/ (ds[j].confidence = ds[i].confidence /\ i <= j)
       IN  <<ds[i]>> \o SortByConfidence(
             [k \in 1..(Len(ds) - 1) |-> IF k < i THEN ds[k] ELSE ds[k + 1]])

\* the learned-model pass of detect, by backend
LearnedPass(model_backend, frame) ==
  IF model_backend = "onnx" THEN detect_onnx(frame) ELSE detect_pytorch(frame)

\* UseCircles without `not detections`
UseCircles_Always(detections) == CIRCLE_DETECTION

\* `if not detections and CIRCLE_DETECTION`
UseCircles(detections) == detections = <<>> /\ CIRCLE_DETECTION

\* NotLoaded never true: detect without its guard
NotLoaded_Never(loaded) == FALSE

\* `if not self.is_loaded: return []`
NotLoaded(loaded) == ~loaded

\* WasteClassifier.detect: the returned list, the list before the sort, and
\* whether it ran the learned model and the geometric detector on the way
detect_trace(loaded, model_backend, frame) ==
  IF NotLoaded(loaded)
    THEN [result |-> <<>>, learned |-> <<>>, found |-> <<>>,
          learned_called |-> FALSE, circles_called |-> FALSE]
  ELSE LET learned == LearnedPass(model_backend, frame)
           called  == UseCircles(learned)
           all     == IF called THEN learned \o detect_circles(frame)
                                ELSE learned
       IN  [ result |-> SortByConfidence(all), learned |-> learned,
             found |-> all, learned_called |-> TRUE,
             circles_called |-> called ]

detect(loaded, model_backend, frame) ==
  detect_trace(loaded, model_backend, frame).result

(***************************************************************************)
(* Inputs: what the engines may report on a frame                          *)
(***************************************************************************)
Scores(person, bottle, book, extra) ==
  [c \in ModelClassIds |->
     CASE c = 0 -> person [] c = 39 -> bottle [] c = 73 -> book [] c = 80 -> extra]

Anchor(cx, cy, w, h, scores) ==
  [cx |-> cx, cy |-> cy, w |-> w, h |-> h, scores |-> scores]

\* rows of the ONNX output, in the 640 x 640 model space
AnchorPool ==
  { Anchor(320, 320, 100, 200, Scores(1, 90, 2, 0)),   \* a bottle, centred
    Anchor(322, 320, 100, 200, Scores(0, 60, 0, 0)),   \* the same bottle again
    Anchor(100, 300,  60, 120, Scores(80, 3, 0, 0)),   \* a person
    Anchor(500, 400,  40,  80, Scores(0, 30, 0, 0)),   \* a bottle at the threshold
    Anchor(200, 200,  80,  60, Scores(0, 5, 70, 0)),   \* a book
    Anchor(400, 150,  50,  50, Scores(0, 0, 0, 50)),   \* a class past COCO_NAMES
    Anchor(  5,  90,  40,  60, Scores(0, 70, 0, 0)),   \* a bottle on the border
    Anchor(450, 250,  30,  90, Scores(60, 60, 0, 0)),  \* person and bottle tied
    Anchor(250, 450,  40,  40, Scores(0, 20, 0, 0)) }  \* below the threshold

Box(cls, conf, xyxy) == [cls |-> cls, conf |-> conf, xyxy |-> xyxy]

\* boxes of model.predict on a w x h frame, xyxy in half pixels
BoxPool(w, h) ==
  { Box(39, 85, <<200, 100, 400, 500>>),
    Box( 0, 90, <<0, 0, 2 * w, 2 * h>>),
    Box(73, 50, <<100, 300, 300, 420>>),
    Box(39, 40, <<300, 20, 301, 80>>) }

Circle(cx, cy, r) == [cx |-> cx, cy |-> cy, r |-> r]

\* circles of cv2.HoughCircles on a w x h frame, radii within
\* CIRCLE_MIN_RADIUS .. CIRCLE_MAX_RADIUS
CirclePool(w, h) ==
  { Circle(10, 10, CIRCLE_MIN_RADIUS),
    Circle(w - 5, h - 5, 60),
    Circle(w \div 2, h \div 2, 60) }

FrameSizes == { <<CAMERA_WIDTH, CAMERA_HEIGHT>>, <<1280, 720>> }

Frame(w, h, onnx_output, boxes, circles) ==
  [w |-> w, h |-> h, onnx_output |-> onnx_output, boxes |-> boxes,
   circles |-> circles]

\* the frames an image file may decode to, by the backend that will see them
ImageFrames(model_backend) ==
  UNION { { Frame(sz[1], sz[2],
                  IF model_backend = "onnx" THEN raw ELSE <<>>,
                  IF model_backend = "onnx" THEN <<>> ELSE raw,
                  circles) :
              raw \in SeqUpTo(IF model_backend = "onnx" THEN AnchorPool
                              ELSE BoxPool(sz[1], sz[2]), MaxRaw),
              circles \in SeqUpTo(CirclePool(sz[1], sz[2]), MaxCircles) } :
          sz \in FrameSizes }

NoFrame == Frame(0, 0, <<>>, <<>>, <<>>)

(***************************************************************************)
(* get_summary                                                             *)
(***************************************************************************)
RECURSIVE SumRewards(_)
SumRewards(ds) ==
  IF ds = <<>> THEN 0 ELSE Head(ds).ecocoin_reward + SumRewards(Tail(ds))

\* get_summary whose per-category count is incremented only for the
\* detections after the first of a category
get_summary_CountInElse(ds) ==
  IF ds = <<>>
    THEN [total_items |-> 0, total_ecocoins |-> 0, categories |-> <<>>]
    ELSE LET cats == {ds[i].waste_category : i \in 1..Len(ds)}
             Of(c) == SelectSeq(ds, LAMBDA d : d.waste_category = c)
         IN  [ total_items    |-> Len(ds),
               total_ecocoins |-> SumRewards(ds),
               categories     |-> [c \in cats |->
                                     [ count    |-> Len(Of(c)) - 1,
                                       name_uz  |-> Of(c)[1].name_uz,
                                       ecocoins |-> SumRewards(Of(c)) ]] ]

\* get_summary without its early return, seeding the categories with an
\* empty "unknown" entry
get_summary_SeededUnknown(ds) ==
  LET cats == {ds[i].waste_category : i \in 1..Len(ds)} \cup {"unknown"}
      Of(c) == SelectSeq(ds, LAMBDA d : d.waste_category = c)
  IN  [ total_items    |-> Len(ds),
        total_ecocoins |-> SumRewards(ds),
        categories     |-> [c \in cats |->
                              [ count    |-> Len(Of(c)),
                                name_uz  |-> IF Of(c) = <<>>
                                               THEN WASTE_CATEGORIES[c].name_uz
                                               ELSE Of(c)[1].name_uz,
                                ecocoins |-> SumRewards(Of(c)) ]] ]

\* WasteClassifier.get_summary: the totals and the per-category entries (the
\* message_uz text, which repeats the two totals, is left out)
get_summary(ds) ==
  IF ds = <<>>
    THEN [total_items |-> 0, total_ecocoins |-> 0, categories |-> <<>>]
    ELSE LET cats == {ds[i].waste_category : i \in 1..Len(ds)}
             Of(c) == SelectSeq(ds, LAMBDA d : d.waste_category = c)
         IN  [ total_items    |-> Len(ds),
               total_ecocoins |-> SumRewards(ds),
               categories     |-> [c \in cats |->
                                     [ count    |-> Len(Of(c)),
                                       name_uz  |-> Of(c)[1].name_uz,
                                       ecocoins |-> SumRewards(Of(c)) ]] ]

(***************************************************************************)
(* Camera frames of the loops: what the camera may show                    *)
(***************************************************************************)
Scenes ==
  { \* nothing in view
    Frame(CAMERA_WIDTH, CAMERA_HEIGHT, <<>>, <<>>, <<>>),
    \* a bottle
    Frame(CAMERA_WIDTH, CAMERA_HEIGHT,
          <<Anchor(320, 320, 100, 200, Scores(1, 90, 2, 0))>>,
          <<Box(39, 85, <<200, 100, 400, 500>>)>>, <<>>),
    \* a person over a bottle cap seen from above
    Frame(CAMERA_WIDTH, CAMERA_HEIGHT,
          <<Anchor(100, 300, 60, 120, Scores(80, 3, 0, 0))>>,
          <<Box(0, 90, <<0, 0, 2 * CAMERA_WIDTH, 2 * CAMERA_HEIGHT>>)>>,
          <<Circle(320, 240, 60)>>),
    \* a bottle cap seen from above
    Frame(CAMERA_WIDTH, CAMERA_HEIGHT, <<>>, <<>>, <<Circle(320, 240, 60)>>),
    \* two bottles side by side
    Frame(CAMERA_WIDTH, CAMERA_HEIGHT,
          <<Anchor(320, 320, 100, 200, Scores(1, 90, 2, 0)),
            Anchor(500, 300, 60, 120, Scores(0, 70, 0, 0))>>,
          <<Box(39, 85, <<200, 100, 400, 500>>),
            Box(39, 70, <<900, 400, 1020, 640>>)>>, <<>>) }

(***************************************************************************)
(* ai/camera.py: backend selection and the opening cascade                 *)
(***************************************************************************)
Mechanisms == <<"picamera", "libcamera", "opencv">>

\* _detect_camera_backend
detect_camera_backend(rpi, picamera2, libcamera) ==
  IF CAMERA_BACKEND # "auto" THEN CAMERA_BACKEND
  ELSE IF rpi /\ picamera2 THEN "picamera"
  ELSE IF rpi /\ libcamera THEN "libcamera"
  ELSE "opencv"

\* whether one opening attempt succeeds: the library must be installed and
\* the device must answer (hw)
AttemptOk(mech, picamera2, libcamera, hw) ==
  CASE mech = "picamera"  -> picamera2 /\ hw[mech]
    [] mech = "libcamera" -> libcamera /\ hw[mech]
    [] mech = "opencv"    -> hw[mech]

\* NextMechanism falling from picamera straight to opencv
NextMechanism_Skip(mech) ==
  CASE mech = "picamera"  -> "opencv"
    [] mech = "libcamera" -> "opencv"
    [] OTHER              -> "none"

\* the mechanism _open_camera falls back to after `mech` failed
NextMechanism(mech) ==
  CASE mech = "picamera"  -> "libcamera"
    [] mech = "libcamera" -> "opencv"
    [] OTHER              -> "none"

\* CameraDetector._open_camera from self.backend: the attempts it makes, in
\* order, each with its outcome
RECURSIVE open_camera(_, _, _, _)
open_camera(backend, picamera2, libcamera, hw) ==
  LET ok == AttemptOk(backend, picamera2, libcamera, hw)
      me == <<[mech |-> backend, ok |-> ok]>>
  IN  IF ok \/ NextMechanism(backend) = "none" THEN me
      ELSE me \o open_camera(NextMechanism(backend), picamera2, libcamera, hw)

\* LoopStarts without the early return
LoopStarts_Always(camera_opened) == TRUE

\* `if not self._open_camera(): return` / `if not camera_opened: return`
LoopStarts(camera_opened) == camera_opened

\* the handles one attempt leaves behind in CameraDetector
\*   cap:    "None" | "unopened" | "open" | "released"
\*   picam:  "None" | "started" | "closed"
\*   libcam: "None" | "proc_alive" | "proc_exited" | "proc_none"
HandleAfter(log, mech, opened, failed, untouched) ==
  IF \E i \in 1..Len(log) : log[i].mech = mech /\ log[i].ok THEN opened
  ELSE IF \E i \in 1..Len(log) : log[i].mech = mech THEN failed
  ELSE untouched

(***************************************************************************)
(* State                                                                   *)
(***************************************************************************)
VARIABLES
  app,             \* which program runs: "image" (main.py --image),
                   \* "camera" (main.py), "kiosk" (app.py)
  is_loaded,       \* WasteClassifier.is_loaded
  model_backend,   \* WasteClassifier.backend
  frame,           \* the frame of the most recent detect call
  detections,      \* what that call returned
  circles_called,  \* whether that call ran _detect_circles
  learned_called,  \* whether that call ran _detect_onnx / _detect_pytorch
  detect_calls,    \* number of detect calls made
  detect_errors,   \* number of detect calls that raised
  is_rpi,                \* _is_raspberry_pi()
  picamera2_available,   \* _PICAMERA2_AVAILABLE
  libcamera_available,   \* _LIBCAMERA_AVAILABLE
  cam_alive,       \* the camera device still delivers frames
  cap,             \* self.cap
  picam,           \* self.picam
  libcam,          \* self.libcam and its process
  cam_backend,     \* CameraDetector.backend / KioskWindow._camera_backend
  open_log,        \* the opening attempts made so far, with their outcomes
  stop_calls,      \* number of CameraDetector.stop calls made
  stop_ops,        \* the release, stop/close, terminate and kill calls they
                   \* issued, each with the state its handle was in
  is_running,      \* CameraDetector.is_running
  total_ecocoins,  \* self.total_ecocoins
  detection_history,  \* CameraDetector.detection_history
  frame_count,     \* self.frame_count
  last_detections, \* last_detections of run / KioskWindow._last_detections
  pc,              \* where the program is: "new", "open_failed", "loop",
                   \* "done", "raised", "closed"; "image" in image mode
  key,             \* the key press waiting for the next waitKey
  ret,             \* flag of the last _read_frame: "True", "False", "none" before any
  callbacks,       \* the frame numbers at which on_detection was invoked
  classifier,      \* KioskWindow.classifier: "None" or "loaded"
  cam_timer,       \* KioskWindow._cam_timer is active
  worker,          \* the DetectionWorker thread: its state ("idle", "started",
                   \* "detecting"), its _frame, the frame run() passed to
                   \* classifier.detect, and the numbers of the frames whose
                   \* hand-over started a run
  signals,         \* result_ready emissions queued for the UI thread
  coin_cooldown,   \* KioskWindow._coin_cooldown
  award_log,       \* the _award_coins calls by what triggered them
                   \* ("detection", "space") and the cooldown timer's
                   \* expiries ("expiry"), in order
  MODEL_BACKEND,          \* ai.config.MODEL_BACKEND as classifier.py imports it
  onnx_available,         \* _ONNX_AVAILABLE
  ultralytics_available,  \* _ULTRALYTICS_AVAILABLE
  onnx_file,       \* os.path.exists of the default MODEL_ONNX path
  model_path,      \* the model_path argument: "None" or "custom"
  custom_file,     \* os.path.exists(model_path) when one is given
  image_file,      \* the image path: "missing", "undecodable" or "ok"
  raised,          \* the exception that left the last call, or NoError
  summary_input,   \* the list a caller passes to get_summary
  summaries,       \* what the get_summary calls made so far returned
  waste_categories,  \* the dict ai.config.WASTE_CATEGORIES as it is now
  yolo_to_waste,     \* the dict ai.config.YOLO_TO_WASTE as it is now
  model,           \* WasteClassifier.model: "None" or "YOLO"
  onnx_session,    \* WasteClassifier.onnx_session: "None" or "InferenceSession"
  read_log         \* the LibcameraCapture.read_frame calls made: the state of
                   \* the process, the bytes the pipe delivered, the flag
                   \* returned

clfVars == <<is_loaded, model_backend, frame, detections, circles_called,
             learned_called, detect_calls, detect_errors>>
sumVars == <<summary_input, summaries>>
\* the tables are read by the classifier and the loops and written by none
cfgVars == <<waste_categories, yolo_to_waste>>
handleVars == <<model, onnx_session>>
lcVars == <<read_log>>
loadVars == <<MODEL_BACKEND, onnx_available, ultralytics_available, onnx_file,
              model_path, custom_file, image_file, raised, sumVars, cfgVars, handleVars, lcVars>>
envVars == <<is_rpi, picamera2_available, libcamera_available, cam_alive>>
camVars == <<cap, picam, libcam, cam_backend, open_log, stop_calls, stop_ops>>
loopVars == <<is_running, total_ecocoins, detection_history, frame_count,
              last_detections, pc, key, ret, callbacks>>

kioskVars == <<classifier, cam_timer, worker, signals, coin_cooldown,
               award_log>>

vars == <<app, loadVars, clfVars, envVars, camVars, loopVars, kioskVars>>

\* a frame handed to the worker: its number and its content
Handed(no, scene) == [no |-> no, scene |-> scene]
NoHanded == Handed(0, NoFrame)

\* an exception: its type, the function that raised it, the path it names
Error(type, at, path) == [type |-> type, at |-> at, path |-> path]
NoError == Error("none", "none", "none")

\* the libraries and files of a machine on which the classifier of the
\* given backend gets loaded from the default path
LoadedEnv(backend) ==
  /\ MODEL_BACKEND = "auto"
  /\ onnx_available = (backend = "onnx")
  /\ onnx_file = (backend = "onnx")
  /\ ultralytics_available = (backend = "pytorch")
  /\ model_path = "None"
  /\ custom_file = FALSE
  /\ image_file = "ok"
  /\ summary_input = <<>>

\* ModelAfter setting self.model whichever backend was loaded
ModelAfter_Both(backend, error) ==
  IF backend # "None" /\ error = NoError THEN "YOLO" ELSE "None"

\* self.model after the constructor: _load_pytorch assigns it, in the branch
\* of every backend but "onnx", when YOLO(path).to("cpu") returns
ModelAfter(backend, error) ==
  IF backend \notin {"onnx", "None"} /\ error = NoError THEN "YOLO" ELSE "None"

\* self.onnx_session after the constructor: _load_onnx assigns it when
\* ort.InferenceSession returns
SessionAfter(backend, error) ==
  IF backend = "onnx" /\ error = NoError THEN "InferenceSession" ELSE "None"

\* the handles of a classifier of the given backend, loaded or not
Handles(loaded, backend) ==
  /\ model = ModelAfter(IF loaded THEN backend ELSE "None", NoError)
  /\ onnx_session = SessionAfter(IF loaded THEN backend ELSE "None", NoError)

\* the fields as the constructors leave them
InitFields ==
  /\ detections = <<>>
  /\ circles_called = FALSE
  /\ learned_called = FALSE
  /\ detect_calls = 0
  /\ detect_errors = 0
  /\ cam_alive = TRUE
  /\ cap = "None"
  /\ picam = "None"
  /\ libcam = "None"
  /\ open_log = <<>>
  /\ stop_calls = 0
  /\ stop_ops = <<>>
  /\ is_running = FALSE
  /\ total_ecocoins = 0
  /\ detection_history = <<>>
  /\ frame_count = 0
  /\ last_detections = <<>>
  /\ key = "none"
  /\ ret = "none"
  /\ callbacks = <<>>
  /\ cam_timer = FALSE
  /\ worker = [state |-> "idle", frame |-> NoHanded, arg |-> NoHanded,
               started |-> <<>>]
  /\ signals = <<>>
  /\ coin_cooldown = FALSE
  /\ award_log = <<>>
  /\ raised = NoError
  /\ summaries = <<>>
  /\ waste_categories = WASTE_CATEGORIES
  /\ yolo_to_waste = YOLO_TO_WASTE
  /\ read_log = <<>>

(***************************************************************************)
(* main.py --image: one detect call on a decoded image                     *)
(***************************************************************************)
InitDetect ==
  /\ app = "image"
  /\ pc = "image"
  /\ is_loaded \in BOOLEAN
  /\ model_backend \in {"onnx", "pytorch"}
  /\ LoadedEnv(model_backend)
  /\ Handles(is_loaded, model_backend)
  /\ frame \in ImageFrames(model_backend)
  /\ is_rpi = FALSE
  /\ picamera2_available = FALSE
  /\ libcamera_available = FALSE
  /\ cam_backend = detect_camera_backend(is_rpi, picamera2_available,
                                         libcamera_available)
  /\ classifier = "loaded"
  /\ InitFields

\* WasteClassifier.detect(frame)
Detect ==
  /\ app = "image"
  /\ pc = "image"
  /\ detect_calls = 0
  /\ LET t == detect_trace(is_loaded, model_backend, frame)
     IN  /\ detections' = t.result
         /\ circles_called' = t.circles_called
         /\ learned_called' = t.learned_called
  /\ detect_calls' = detect_calls + 1
  /\ UNCHANGED <<app, loadVars, is_loaded, model_backend, frame, detect_errors,
                 envVars, camVars, loopVars, kioskVars>>

NextDetect == Detect

SpecDetect == InitDetect /\ [][NextDetect]_vars

(***************************************************************************)
(* main.py: CameraDetector.run                                             *)
(***************************************************************************)
detect_every_n_frames == 3

\* detections the history may hold before the model stops saving
MaxHistory == 2

\* the machines the programs are started on: [rpi, picamera2, libcamera]
Machines ==
  { <<TRUE, TRUE, TRUE>>,      \* a Raspberry Pi with picamera2 and libcamera-vid
    <<TRUE, FALSE, TRUE>>,     \* a Raspberry Pi with libcamera-vid only
    <<TRUE, FALSE, FALSE>>,    \* a Raspberry Pi with neither
    <<FALSE, TRUE, TRUE>>,     \* a board /proc/cpuinfo does not name
    <<FALSE, FALSE, FALSE>> }  \* a PC

Init ==
  /\ app \in {"camera", "kiosk"}
  /\ pc = "new"
  /\ is_loaded = (app = "camera")
  /\ classifier = IF app = "camera" THEN "loaded" ELSE "None"
  /\ model_backend \in {"onnx", "pytorch"}
  /\ LoadedEnv(model_backend)
  /\ Handles(is_loaded, model_backend)
  /\ frame = NoFrame
  /\ \E m \in Machines :
       /\ is_rpi = m[1]
       /\ picamera2_available = m[2]
       /\ libcamera_available = m[3]
  /\ cam_backend = IF app = "camera"
                     THEN detect_camera_backend(is_rpi, picamera2_available,
                                                libcamera_available)
                     ELSE "None"
  /\ InitFields

\* CameraDetector.stop: the handles after the release calls
StopCap(c) == IF c # "None" THEN "released" ELSE c
StopPicam(p) == IF p # "None" THEN "closed" ELSE p
\* StopLibcam leaving self.process as it is
StopLibcam_Keep(l) == l

StopLibcam(l) == IF l # "None" THEN "proc_none" ELSE l

\* one call issued on a handle: what, on which handle, in which state
Op(op, on, was) == [op |-> op, on |-> on, was |-> was]

\* the calls one stop issues on the handles c, p, l, in order: cap.release()
\* when self.cap is not None; picam.stop() and close() when self.picam is
\* not None; LibcameraCapture.stop when self.libcam is not None, which
\* terminates a process that is not None, and kills it when terminate or the
\* three-second wait raises (timeout)
StopOps(c, p, l, timeout) ==
  (IF c # "None" THEN <<Op("release", "cap", c)>> ELSE <<>>)
  \o (IF p # "None" THEN <<Op("stop_close", "picam", p)>> ELSE <<>>)
  \o (IF l \notin {"None", "proc_none"}
        THEN <<Op("terminate", "process", l)>>
             \o (IF timeout /\ l = "proc_alive"
                   THEN <<Op("kill", "process", l)>> ELSE <<>>)
        ELSE <<>>)

\* the record a stop call leaves of itself
StopLogged ==
  /\ stop_calls' = stop_calls + 1
  /\ \E timeout \in BOOLEAN :
       stop_ops' = stop_ops \o StopOps(cap, picam, libcam, timeout)

\* run up to the loop: _open_camera, then is_running = True or the early return
RunStart ==
  /\ app = "camera"
  /\ pc = "new"
  /\ \E hw \in [{"picamera", "libcamera", "opencv"} -> BOOLEAN] :
       LET log    == open_camera(cam_backend, picamera2_available,
                                 libcamera_available, hw)
           opened == log[Len(log)].ok
       IN  /\ open_log' = log
           /\ cam_backend' = log[Len(log)].mech
           /\ picam' = HandleAfter(log, "picamera", "started", "None", picam)
           /\ libcam' = HandleAfter(log, "libcamera", "proc_alive",
                          IF libcamera_available THEN "proc_exited" ELSE "None",
                          libcam)
           /\ cap' = HandleAfter(log, "opencv", "open", "unopened", cap)
           /\ IF LoopStarts(opened)
                THEN is_running' = TRUE /\ pc' = "loop"
                ELSE is_running' = FALSE /\ pc' = "open_failed"
  /\ UNCHANGED <<kioskVars, app, loadVars, clfVars, envVars, total_ecocoins, detection_history,
                 frame_count, last_detections, key, ret, callbacks,
                 stop_calls, stop_ops>>

\* whether _read_frame can return a frame at all
CanRead ==
  /\ cam_alive
  /\ CASE cam_backend = "picamera" /\ picam # "None" -> picam = "started"
       [] cam_backend = "libcamera" /\ libcam # "None" -> libcam = "proc_alive"
       [] OTHER -> cap = "open"

\* IterateReadFail with the `continue` placed after the frame counter
IterateReadFail_Counts ==
  /\ app = "camera"
  /\ pc = "loop"
  /\ is_running
  /\ frame_count < MaxFrames
  /\ ret' = "False"
  /\ frame_count' = frame_count + 1
  /\ UNCHANGED <<kioskVars, app, loadVars, clfVars, envVars, camVars, is_running,
                 total_ecocoins, detection_history, last_detections, pc, key,
                 callbacks>>

\* one iteration whose _read_frame fails: `continue`
IterateReadFail ==
  /\ app = "camera"
  /\ pc = "loop"
  /\ is_running
  /\ ret' = "False"
  /\ UNCHANGED <<kioskVars, app, loadVars, clfVars, envVars, camVars, is_running, total_ecocoins,
                 detection_history, frame_count, last_detections, pc, key,
                 callbacks>>

\* ExtendHistory keeping only the detections just saved
ExtendHistory_Replace(history, shown) == shown

\* ExtendHistory saving only the first of the detections shown
ExtendHistory_BestOnly(history, shown) == Append(history, Head(shown))

\* self.detection_history.extend(last_detections)
ExtendHistory(history, shown) == history \o shown

\* the key handling at the end of an iteration, given the detections shown
KeyStep(shown) ==
  /\ key' = "none"
  /\ IF key = "q"
       THEN \* break, then finally: self.stop()
            /\ is_running' = FALSE
            /\ pc' = "done"
            /\ cap' = StopCap(cap)
            /\ picam' = StopPicam(picam)
            /\ libcam' = StopLibcam(libcam)
            /\ StopLogged
            /\ UNCHANGED <<total_ecocoins, detection_history>>
       ELSE /\ UNCHANGED <<is_running, pc, cap, picam, libcam, stop_calls,
                           stop_ops>>
            /\ IF key = "space" /\ shown # <<>>
                 THEN /\ total_ecocoins' =
                           total_ecocoins + get_summary(shown).total_ecocoins
                      /\ detection_history' = ExtendHistory(detection_history, shown)
                 ELSE UNCHANGED <<total_ecocoins, detection_history>>

\* InferenceDue without the modulus test: inference on every frame
InferenceDue_Always(count, n) == TRUE

\* whether this frame is one the classifier runs on
InferenceDue(count, n) == count % n = 0

\* one iteration with a frame and no inference
IterateFrame ==
  /\ app = "camera"
  /\ pc = "loop"
  /\ is_running
  /\ CanRead
  /\ frame_count < MaxFrames
  /\ ~InferenceDue(frame_count + 1, detect_every_n_frames)
  /\ ret' = "True"
  /\ frame_count' = frame_count + 1
  /\ KeyStep(last_detections)
  /\ UNCHANGED <<kioskVars, app, loadVars, clfVars, envVars, cam_backend, open_log,
                 last_detections, callbacks>>

\* CallbackDue without the test of the list: a callback per inference
CallbackDue_Always(result) == TRUE

\* `if last_detections and self.on_detection`, with on_detection registered
\* as main.py does
CallbackDue(result) == result # <<>>

\* one iteration with a frame on which classifier.detect returns
IterateDetect ==
  /\ app = "camera"
  /\ pc = "loop"
  /\ is_running
  /\ CanRead
  /\ frame_count < MaxFrames
  /\ InferenceDue(frame_count + 1, detect_every_n_frames)
  /\ ret' = "True"
  /\ frame_count' = frame_count + 1
  /\ \E scene \in Scenes :
       LET t == detect_trace(is_loaded, model_backend, scene)
       IN  /\ frame' = scene
           /\ detections' = t.result
           /\ circles_called' = t.circles_called
           /\ learned_called' = t.learned_called
           /\ last_detections' = t.result
           /\ callbacks' = IF CallbackDue(t.result)
                             THEN Append(callbacks, frame_count + 1)
                             ELSE callbacks
           /\ KeyStep(t.result)
  /\ detect_calls' = detect_calls + 1
  /\ UNCHANGED <<kioskVars, app, loadVars, is_loaded, model_backend, detect_errors, envVars,
                 cam_backend, open_log>>

\* one iteration with a frame on which classifier.detect raises: the
\* exception is no KeyboardInterrupt, so only `finally: self.stop()` runs
\* and the exception leaves run
IterateDetectRaises ==
  /\ app = "camera"
  /\ pc = "loop"
  /\ is_running
  /\ CanRead
  /\ frame_count < MaxFrames
  /\ InferenceDue(frame_count + 1, detect_every_n_frames)
  /\ ret' = "True"
  /\ frame_count' = frame_count + 1
  /\ detect_calls' = detect_calls + 1
  /\ detect_errors' = detect_errors + 1
  /\ is_running' = FALSE
  /\ pc' = "raised"
  /\ cap' = StopCap(cap)
  /\ picam' = StopPicam(picam)
  /\ libcam' = StopLibcam(libcam)
  /\ StopLogged
  /\ UNCHANGED <<kioskVars, app, loadVars, is_loaded, model_backend, frame, detections,
                 circles_called, learned_called, envVars, cam_backend, open_log,
                 total_ecocoins, detection_history, last_detections, key,
                 callbacks>>

\* Ctrl-C while the loop runs: except KeyboardInterrupt, then finally: stop()
Interrupt ==
  /\ app = "camera"
  /\ pc = "loop"
  /\ is_running' = FALSE
  /\ pc' = "done"
  /\ cap' = StopCap(cap)
  /\ picam' = StopPicam(picam)
  /\ libcam' = StopLibcam(libcam)
  /\ StopLogged
  /\ UNCHANGED <<kioskVars, app, loadVars, clfVars, envVars, cam_backend, open_log, total_ecocoins,
                 detection_history, frame_count, last_detections, key, ret,
                 callbacks>>

\* stop calls a caller makes besides the one of run
MaxStops == 3

\* detector.stop() called by the owner of the detector: before run, after
\* run returned early (no camera opened), or again after run's own stop
StopAgain ==
  /\ app = "camera"
  /\ pc \in {"new", "open_failed", "done", "raised"}
  /\ stop_calls < MaxStops
  /\ is_running' = FALSE
  /\ cap' = StopCap(cap)
  /\ picam' = StopPicam(picam)
  /\ libcam' = StopLibcam(libcam)
  /\ StopLogged
  /\ UNCHANGED <<kioskVars, app, loadVars, clfVars, envVars, cam_backend,
                 open_log, total_ecocoins, detection_history, frame_count,
                 last_detections, pc, key, ret, callbacks>>

\* the user presses Q, S or SPACE in the window
PressKey ==
  /\ app = "camera"
  /\ pc = "loop"
  /\ key = "none"
  /\ \E k \in {"q", "s", "space"} :
       /\ k = "space" => Len(detection_history) < MaxHistory
       /\ key' = k
  /\ UNCHANGED <<kioskVars, app, loadVars, clfVars, envVars, camVars, is_running, total_ecocoins,
                 detection_history, frame_count, last_detections, pc, ret,
                 callbacks>>

\* the camera stops delivering frames (unplugged; libcamera-vid exits)
CameraLost ==
  /\ app \in {"camera", "kiosk"}
  /\ pc = "loop"
  /\ cam_alive
  /\ cam_alive' = FALSE
  /\ libcam' = IF libcam = "proc_alive" THEN "proc_exited" ELSE libcam
  /\ UNCHANGED <<kioskVars, app, loadVars, clfVars, is_rpi, picamera2_available,
                 libcamera_available, cap, picam, cam_backend, open_log,
                 stop_calls, stop_ops, loopVars>>

(***************************************************************************)
(* app.py: KioskWindow and its DetectionWorker                             *)
(***************************************************************************)
COIN_REWARD == 5
KIOSK_DETECT_EVERY == 6

\* frames the kiosk reads before the model stops reading
MaxKioskFrames == 12

\* KioskWindow.start with CAMERA_BACKEND "auto": the attempts it makes
kiosk_open(rpi, picamera2, libcamera, hw) ==
  LET try(m) == <<[mech |-> m, ok |-> AttemptOk(m, picamera2, libcamera, hw)]>>
      a == IF rpi THEN try("picamera") ELSE <<>>
      b == IF rpi /\ ~a[Len(a)].ok THEN a \o try("libcamera") ELSE a
  IN  IF b = <<>> \/ ~b[Len(b)].ok THEN b \o try("opencv") ELSE b

\* start: load the model in the worker, open the camera, start the timer
KioskStart ==
  /\ app = "kiosk"
  /\ pc = "new"
  /\ \E loaded \in BOOLEAN :
       /\ is_loaded' = loaded
       /\ classifier' = IF loaded THEN "loaded" ELSE "None"
       /\ model' = ModelAfter(IF loaded THEN model_backend ELSE "None", NoError)
       /\ onnx_session' =
            SessionAfter(IF loaded THEN model_backend ELSE "None", NoError)
  /\ \E hw \in [{"picamera", "libcamera", "opencv"} -> BOOLEAN] :
       LET log    == kiosk_open(is_rpi, picamera2_available,
                                libcamera_available, hw)
           opened == log[Len(log)].ok
       IN  /\ open_log' = log
           /\ cam_backend' = IF opened THEN log[Len(log)].mech ELSE "None"
           /\ picam' = HandleAfter(log, "picamera", "started", "None", picam)
           /\ libcam' = HandleAfter(log, "libcamera", "proc_alive", "None",
                                    libcam)
           /\ cap' = HandleAfter(log, "opencv", "open", "None", cap)
           /\ IF LoopStarts(opened)
                THEN cam_timer' = TRUE /\ pc' = "loop"
                ELSE cam_timer' = FALSE /\ pc' = "open_failed"
  /\ UNCHANGED <<app, MODEL_BACKEND, onnx_available, ultralytics_available,
                 onnx_file, model_path, custom_file, image_file, raised,
                 sumVars, cfgVars, lcVars,
                 model_backend, frame, detections, circles_called, learned_called,
                 detect_calls, detect_errors, envVars, is_running, total_ecocoins,
                 detection_history, frame_count, last_detections, key, ret,
                 callbacks, stop_calls, stop_ops,
                 worker, signals, coin_cooldown, award_log>>

\* whether KioskWindow._read_frame can return a frame at all
KioskCanRead ==
  /\ cam_alive
  /\ CASE cam_backend = "picamera" /\ picam # "None" -> picam = "started"
       [] cam_backend = "libcamera" /\ libcam # "None" -> libcam = "proc_alive"
       [] OTHER -> cap = "open"

\* a timer tick whose _read_frame fails: `return`
KioskReadFail ==
  /\ app = "kiosk"
  /\ pc = "loop"
  /\ cam_timer
  /\ ret' = "False"
  /\ UNCHANGED <<app, loadVars, clfVars, envVars, camVars, is_running, total_ecocoins,
                 detection_history, frame_count, last_detections, pc, key,
                 callbacks, kioskVars>>

\* `if self.isRunning(): return` of DetectionWorker.detect: the worker takes
\* the frame only when its thread is not running
WorkerAccepts_Always(state) == TRUE

WorkerAccepts(state) == state = "idle"

\* DetectionWorker.detect(frame): store the frame and start the thread;
\* QThread.start() does nothing on a running thread
worker_detect(w, handed) ==
  IF ~WorkerAccepts(w.state) THEN w
  ELSE IF w.state = "idle"
         THEN [w EXCEPT !.frame = handed, !.state = "started",
                        !.started = Append(w.started, handed.no)]
         ELSE [w EXCEPT !.frame = handed]

\* a timer tick with a frame: count it, draw, and every sixth frame hand it
\* to the worker
KioskFrame ==
  /\ app = "kiosk"
  /\ pc = "loop"
  /\ cam_timer
  /\ KioskCanRead
  /\ frame_count < MaxKioskFrames
  /\ ret' = "True"
  /\ frame_count' = frame_count + 1
  /\ IF InferenceDue(frame_count + 1, KIOSK_DETECT_EVERY) /\ classifier # "None"
       THEN \E scene \in Scenes :
              worker' = worker_detect(worker, Handed(frame_count + 1, scene))
       ELSE worker' = worker
  /\ UNCHANGED <<app, loadVars, clfVars, envVars, camVars, is_running, total_ecocoins,
                 detection_history, last_detections, pc, key, callbacks,
                 classifier, cam_timer, signals, coin_cooldown, award_log>>

\* DetectionWorker.run begins: the thread reads self._frame and calls
\* classifier.detect on it
WorkerBegin ==
  /\ app = "kiosk"
  /\ worker.state = "started"
  /\ worker' = [worker EXCEPT !.state = "detecting", !.arg = worker.frame]
  /\ UNCHANGED <<app, loadVars, clfVars, envVars, camVars, loopVars, classifier,
                 cam_timer, signals, coin_cooldown, award_log>>

\* WorkerEnd with the slot run by the worker thread itself (a direct
\* connection) instead of being queued for the UI thread
WorkerEnd_Direct ==
  /\ app = "kiosk"
  /\ worker.state = "detecting"
  /\ LET t == detect_trace(is_loaded, model_backend, worker.arg.scene)
     IN  /\ frame' = worker.arg.scene
         /\ detections' = t.result
         /\ circles_called' = t.circles_called
         /\ learned_called' = t.learned_called
         /\ last_detections' = t.result
         /\ IF (\E i \in 1..Len(t.result) :
                   ~(t.result[i].waste_category = "unknown"
                     \/ t.result[i].class_name = "person")) /\ ~coin_cooldown
              THEN /\ coin_cooldown' = TRUE
                   /\ total_ecocoins' = total_ecocoins + COIN_REWARD
                   /\ award_log' = Append(award_log, "detection")
              ELSE UNCHANGED <<coin_cooldown, total_ecocoins, award_log>>
  /\ detect_calls' = detect_calls + 1
  /\ worker' = [worker EXCEPT !.state = "idle"]
  /\ UNCHANGED <<app, loadVars, is_loaded, model_backend, detect_errors, envVars,
                 camVars, is_running, detection_history, frame_count, pc, key,
                 ret, callbacks, classifier, cam_timer, signals>>

\* classifier.detect returns in the worker: emit the result, thread ends
WorkerEnd ==
  /\ app = "kiosk"
  /\ worker.state = "detecting"
  /\ LET t == detect_trace(is_loaded, model_backend, worker.arg.scene)
     IN  /\ frame' = worker.arg.scene
         /\ detections' = t.result
         /\ circles_called' = t.circles_called
         /\ learned_called' = t.learned_called
         /\ signals' = Append(signals, [no |-> worker.arg.no,
                                        detections |-> t.result])
  /\ detect_calls' = detect_calls + 1
  /\ worker' = [worker EXCEPT !.state = "idle"]
  /\ UNCHANGED <<app, loadVars, is_loaded, model_backend, detect_errors, envVars,
                 camVars, loopVars, classifier, cam_timer, coin_cooldown, award_log>>

\* classifier.detect raises in the worker: except Exception, emit([])
WorkerEndRaises ==
  /\ app = "kiosk"
  /\ worker.state = "detecting"
  /\ signals' = Append(signals, [no |-> worker.arg.no, detections |-> <<>>])
  /\ detect_calls' = detect_calls + 1
  /\ detect_errors' = detect_errors + 1
  /\ worker' = [worker EXCEPT !.state = "idle"]
  /\ UNCHANGED <<app, loadVars, is_loaded, model_backend, frame, detections,
                 circles_called, learned_called, envVars, camVars, loopVars, classifier,
                 cam_timer, coin_cooldown, award_log>>

\* any detection at all taken for waste
WasteFound_Any(ds) == ds # <<>>

\* the first detection _on_detection_result takes for waste
WasteFound(ds) ==
  \E i \in 1..Len(ds) :
    ~(ds[i].waste_category = "unknown" \/ ds[i].class_name = "person")

\* _on_detection_result in the UI thread, with _award_coins
KioskOnResult ==
  /\ app = "kiosk"
  /\ signals # <<>>
  /\ signals' = Tail(signals)
  /\ last_detections' = Head(signals).detections
  /\ IF WasteFound(Head(signals).detections) /\ ~coin_cooldown
       THEN /\ coin_cooldown' = TRUE
            /\ total_ecocoins' = total_ecocoins + COIN_REWARD
            /\ award_log' = Append(award_log, "detection")
       ELSE UNCHANGED <<coin_cooldown, total_ecocoins, award_log>>
  /\ UNCHANGED <<app, loadVars, clfVars, envVars, camVars, is_running,
                 detection_history, frame_count, pc, key, ret, callbacks,
                 classifier, cam_timer, worker>>

\* the cooldown timer expires: _reset_cooldown
ResetCooldown ==
  /\ app = "kiosk"
  /\ coin_cooldown
  /\ coin_cooldown' = FALSE
  /\ award_log' = Append(award_log, "expiry")
  /\ UNCHANGED <<app, loadVars, clfVars, envVars, camVars, loopVars, classifier,
                 cam_timer, worker, signals>>

\* SPACE presses the model lets the kiosk take
MaxTestAwards == 2

\* keyPressEvent with SPACE: _award_coins("Test shisha"), whatever the
\* cooldown flag says; the timer is started again
KioskSpace ==
  /\ app = "kiosk"
  /\ pc \in {"loop", "open_failed"}
  /\ Cardinality({i \in 1..Len(award_log) : award_log[i] = "space"})
       < MaxTestAwards
  /\ coin_cooldown' = TRUE
  /\ total_ecocoins' = total_ecocoins + COIN_REWARD
  /\ award_log' = Append(award_log, "space")
  /\ UNCHANGED <<app, loadVars, clfVars, envVars, camVars, is_running,
                 detection_history, frame_count, last_detections, pc, key,
                 ret, callbacks, classifier, cam_timer, worker, signals>>

\* closeEvent (Q, Esc or the window's close button): stop the timer, wait up
\* to two seconds for the worker, release the camera.  A worker that is still
\* detecting either ends during the wait or after it: both are WorkerEnd
\* steps that follow this one.
KioskClose ==
  /\ app = "kiosk"
  /\ pc \in {"loop", "open_failed"}
  /\ cam_timer' = FALSE
  /\ pc' = "closed"
  /\ cap' = StopCap(cap)
  /\ picam' = StopPicam(picam)
  /\ libcam' = StopLibcam(libcam)
  /\ UNCHANGED <<app, loadVars, clfVars, envVars, cam_backend, open_log, is_running,
                 total_ecocoins, detection_history, frame_count,
                 last_detections, key, ret, callbacks, classifier, worker,
                 signals, coin_cooldown, award_log, stop_calls, stop_ops>>

Iterate ==
  \/ IterateReadFail
  \/ IterateFrame
  \/ IterateDetect
  \/ IterateDetectRaises

Next ==
  \/ RunStart
  \/ Iterate
  \/ Interrupt
  \/ StopAgain
  \/ PressKey
  \/ CameraLost
  \/ KioskStart
  \/ KioskReadFail
  \/ KioskFrame
  \/ WorkerBegin
  \/ WorkerEnd
  \/ WorkerEndRaises
  \/ KioskOnResult
  \/ ResetCooldown
  \/ KioskSpace
  \/ KioskClose

Spec == Init /\ [][Next]_vars

\* the loop keeps iterating while it runs
FairSpec == Spec /\ WF_vars(Iterate)

(***************************************************************************)
(* main.py --image from the start: WasteClassifier(), detect_single_image  *)
(***************************************************************************)
\* detect_model_backend preferring ultralytics whenever it is installed
detect_model_backend_UltralyticsFirst(setting, onnx, file, ultralytics) ==
  IF setting # "auto" THEN setting
  ELSE IF ultralytics THEN "pytorch"
  ELSE IF onnx THEN "onnx"
  ELSE "raise"

\* _detect_model_backend: the backend it returns, or "raise" for its
\* RuntimeError
detect_model_backend(setting, onnx, file, ultralytics) ==
  IF setting # "auto" THEN setting
  ELSE IF onnx /\ file THEN "onnx"
  ELSE IF ultralytics THEN "pytorch"
  ELSE IF onnx THEN "onnx"
  ELSE "raise"

\* `self.model_path or os.path.join(base_dir, MODEL_ONNX)`
OnnxPath(path) == IF path # "None" THEN path ELSE "MODEL_ONNX"

\* os.path.exists of that path
OnnxPathExists(path, file, custom) == IF path # "None" THEN custom ELSE file

\* load_onnx reporting a missing model file as a missing runtime
load_onnx_OneError(onnx, path, file, custom, engine_ok) ==
  IF ~onnx \/ ~OnnxPathExists(path, file, custom)
    THEN Error("RuntimeError", "_load_onnx", "none")
  ELSE IF ~engine_ok THEN Error("Exception", "_load_onnx", "none")
  ELSE NoError

\* _load_onnx: the exception that leaves it, NoError when the session is
\* created; engine_ok is whether ort.InferenceSession accepts the file
load_onnx(onnx, path, file, custom, engine_ok) ==
  IF ~onnx THEN Error("RuntimeError", "_load_onnx", "none")
  ELSE IF ~OnnxPathExists(path, file, custom)
    THEN Error("FileNotFoundError", "_load_onnx", OnnxPath(path))
  ELSE IF ~engine_ok THEN Error("Exception", "_load_onnx", "none")
  ELSE NoError

\* _load_pytorch: likewise; engine_ok is whether YOLO(path).to("cpu") works
load_pytorch(ultralytics, engine_ok) ==
  IF ~ultralytics THEN Error("RuntimeError", "_load_pytorch", "none")
  ELSE IF ~engine_ok THEN Error("Exception", "_load_pytorch", "none")
  ELSE NoError

\* WasteClassifier.__init__: the backend chosen and the exception, if any
construct(setting, onnx, file, ultralytics, path, custom, engine_ok) ==
  LET b == detect_model_backend(setting, onnx, file, ultralytics)
  IN  [ backend |-> IF b = "raise" THEN "None" ELSE b,
        error   |-> IF b = "raise"
                      THEN Error("RuntimeError", "_detect_model_backend", "none")
                    ELSE IF b = "onnx"
                      THEN load_onnx(onnx, path, file, custom, engine_ok)
                    ELSE load_pytorch(ultralytics, engine_ok) ]

\* read_image handing an undecodable file on as an empty frame
read_image_Lenient(file) ==
  IF file = "missing"
    THEN Error("FileNotFoundError", "detect_single_image", "image_path")
  ELSE NoError

\* the checks of detect_single_image before it calls detect
read_image(file) ==
  CASE file = "missing" ->
         Error("FileNotFoundError", "detect_single_image", "image_path")
    [] file = "undecodable" ->
         Error("ValueError", "detect_single_image", "image_path")
    [] OTHER -> NoError

InitLoad ==
  /\ app = "image"
  /\ pc = "load_new"
  /\ is_loaded = FALSE
  /\ model_backend = "None"
  /\ classifier = "None"
  /\ frame = NoFrame
  /\ MODEL_BACKEND \in {"auto", "onnx", "pytorch"}
  /\ onnx_available \in BOOLEAN
  /\ onnx_file \in BOOLEAN
  /\ ultralytics_available \in BOOLEAN
  /\ model_path \in {"None", "custom"}
  /\ custom_file \in BOOLEAN
  /\ model_path = "None" => ~custom_file
  /\ image_file \in {"missing", "undecodable", "ok"}
  /\ summary_input = <<>>
  /\ Handles(is_loaded, model_backend)
  /\ is_rpi = FALSE
  /\ picamera2_available = FALSE
  /\ libcamera_available = FALSE
  /\ cam_backend = detect_camera_backend(is_rpi, picamera2_available,
                                         libcamera_available)
  /\ InitFields

\* CameraDetector() of run_image_mode: classifier = WasteClassifier()
Construct ==
  /\ app = "image"
  /\ pc = "load_new"
  /\ \E engine_ok \in BOOLEAN :
       LET c == construct(MODEL_BACKEND, onnx_available, onnx_file,
                          ultralytics_available, model_path, custom_file,
                          engine_ok)
       IN  /\ model_backend' = c.backend
           /\ raised' = c.error
           /\ is_loaded' = (c.error = NoError)
           /\ model' = ModelAfter(c.backend, c.error)
           /\ onnx_session' = SessionAfter(c.backend, c.error)
           /\ classifier' = IF c.error = NoError THEN "loaded" ELSE "None"
           /\ pc' = IF c.error = NoError THEN "constructed"
                                         ELSE "construct_failed"
  /\ UNCHANGED <<app, frame, detections, circles_called, learned_called,
                 detect_calls, detect_errors, envVars, camVars, is_running,
                 total_ecocoins, detection_history, frame_count,
                 last_detections, key, ret, callbacks, cam_timer, worker,
                 signals, coin_cooldown, award_log, MODEL_BACKEND, onnx_available,
                 ultralytics_available, onnx_file, model_path, custom_file,
                 image_file, sumVars, cfgVars, lcVars>>

\* detect_single_image(image_path) on the constructed classifier
DetectSingleImage ==
  /\ app = "image"
  /\ pc = "constructed"
  /\ LET err == read_image(image_file)
     IN  IF err # NoError
           THEN /\ raised' = err
                /\ pc' = "image_raised"
                /\ UNCHANGED <<frame, detections, circles_called,
                               learned_called, detect_calls>>
           ELSE /\ \E scene \in Scenes :
                     LET t == detect_trace(is_loaded, model_backend, scene)
                     IN  /\ frame' = scene
                         /\ detections' = t.result
                         /\ circles_called' = t.circles_called
                         /\ learned_called' = t.learned_called
                /\ detect_calls' = detect_calls + 1
                /\ pc' = "image_done"
                /\ raised' = raised
  /\ UNCHANGED <<app, is_loaded, model_backend, detect_errors, envVars,
                 camVars, is_running, total_ecocoins, detection_history,
                 frame_count, last_detections, key, ret, callbacks,
                 kioskVars, MODEL_BACKEND, onnx_available,
                 ultralytics_available, onnx_file, model_path, custom_file,
                 image_file, sumVars, cfgVars, handleVars, lcVars>>

NextLoad ==
  \/ Construct
  \/ DetectSingleImage

SpecLoad == InitLoad /\ [][NextLoad]_vars

(***************************************************************************)
(* get_summary on a list a caller holds (tests/test_ai.py, run_image_mode) *)
(***************************************************************************)
\* longest list handed to get_summary
MaxSummary == 3

\* detections a caller may hold: one per configured category, and the
\* bottle of the circle fallback, which shares its category with another
DetectionPool ==
  { DetectionResult("bottle", "bottle", 90, <<100, 50, 200, 250>>,
                    WASTE_CATEGORIES["bottle"].name_uz),
    DetectionResult("circle_bottle", "bottle", CIRCLE_CONFIDENCE,
                    <<260, 180, 380, 300>>,
                    WASTE_CATEGORIES["bottle"].name_uz \o " (yuqoridan)"),
    DetectionResult("cup", "cup", 80, <<10, 10, 60, 90>>,
                    WASTE_CATEGORIES["cup"].name_uz),
    DetectionResult("wine glass", "glass", 70, <<300, 300, 340, 400>>,
                    WASTE_CATEGORIES["glass"].name_uz),
    DetectionResult("can", "can", 60, <<400, 100, 450, 200>>,
                    WASTE_CATEGORIES["can"].name_uz),
    DetectionResult("person", "unknown", 90, <<0, 0, 640, 480>>,
                    WASTE_CATEGORIES["unknown"].name_uz) }

InitSummary ==
  /\ app = "image"
  /\ pc = "summary"
  /\ is_loaded = TRUE
  /\ model_backend \in {"onnx", "pytorch"}
  /\ MODEL_BACKEND = "auto"
  /\ onnx_available = (model_backend = "onnx")
  /\ onnx_file = (model_backend = "onnx")
  /\ ultralytics_available = (model_backend = "pytorch")
  /\ model_path = "None"
  /\ custom_file = FALSE
  /\ image_file = "ok"
  /\ summary_input \in SeqUpTo(DetectionPool, MaxSummary)
  /\ Handles(is_loaded, model_backend)
  /\ frame = NoFrame
  /\ is_rpi = FALSE
  /\ picamera2_available = FALSE
  /\ libcamera_available = FALSE
  /\ cam_backend = detect_camera_backend(is_rpi, picamera2_available,
                                         libcamera_available)
  /\ classifier = "loaded"
  /\ InitFields

\* classifier.get_summary(detections)
Summarize ==
  /\ app = "image"
  /\ pc = "summary"
  /\ summaries = <<>>
  /\ summaries' = Append(summaries, get_summary(summary_input))
  /\ UNCHANGED <<app, MODEL_BACKEND, onnx_available, ultralytics_available,
                 onnx_file, model_path, custom_file, image_file, raised,
                 summary_input, cfgVars, handleVars, lcVars, clfVars, envVars, camVars, loopVars,
                 kioskVars>>

NextSummary == Summarize

SpecSummary == InitSummary /\ [][NextSummary]_vars

(***************************************************************************)
(* ai/camera.py: LibcameraCapture, the libcamera-vid subprocess            *)
(***************************************************************************)
\* read_frame calls made before the model stops reading
MaxReads == 3

\* what the pipe delivers to one read of a live process: a whole frame,
\* fewer bytes than one, or an exception of the read or the conversion
PipeBytes == {"full", "short", "error"}

\* read_frame trusting the pipe without polling the process
read_frame_NoPoll(process, bytes) == bytes = "full"

\* LibcameraCapture.read_frame: the flag it returns
read_frame(process, bytes) ==
  IF process \in {"proc_none", "proc_exited"} THEN FALSE
  ELSE IF bytes = "full" THEN TRUE
  ELSE FALSE

InitLibcam ==
  /\ app = "camera"
  /\ pc = "lc_none"
  /\ is_loaded = TRUE
  /\ classifier = "loaded"
  /\ model_backend \in {"onnx", "pytorch"}
  /\ LoadedEnv(model_backend)
  /\ Handles(is_loaded, model_backend)
  /\ frame = NoFrame
  /\ is_rpi = TRUE
  /\ picamera2_available = FALSE
  /\ libcamera_available = TRUE
  /\ cam_backend = detect_camera_backend(is_rpi, picamera2_available,
                                         libcamera_available)
  /\ InitFields

\* LibcameraCapture(width, height, fps): process = None
LcConstruct ==
  /\ pc = "lc_none"
  /\ libcam = "None"
  /\ libcam' = "proc_none"
  /\ pc' = "lc_new"
  /\ UNCHANGED <<app, loadVars, clfVars, envVars, cap, picam, cam_backend,
                 open_log, stop_calls, stop_ops, is_running, total_ecocoins,
                 detection_history, frame_count, last_detections, key, ret,
                 callbacks, kioskVars>>

\* start: Popen raises (process stays None), the process exits within the
\* warm-up second, or it runs
LcStart ==
  /\ pc = "lc_new"
  /\ \E outcome \in {"proc_none", "proc_exited", "proc_alive"} :
       /\ libcam' = outcome
       /\ pc' = IF outcome = "proc_alive" THEN "lc_open" ELSE "lc_start_failed"
       /\ open_log' = Append(open_log, [mech |-> "libcamera",
                                        ok |-> outcome = "proc_alive"])
  /\ UNCHANGED <<app, loadVars, clfVars, envVars, cap, picam, cam_backend,
                 stop_calls, stop_ops, is_running, total_ecocoins,
                 detection_history, frame_count, last_detections, key, ret,
                 callbacks, kioskVars>>

\* one read_frame call
LcReadFrame ==
  /\ pc \in {"lc_new", "lc_open", "lc_start_failed", "lc_stopped"}
  /\ Len(read_log) < MaxReads
  /\ \E bytes \in PipeBytes :
       LET delivered == IF libcam = "proc_alive" THEN bytes ELSE "none"
           ok        == read_frame(libcam, bytes)
       IN  /\ read_log' = Append(read_log, [process |-> libcam,
                                            bytes |-> delivered, ok |-> ok])
           /\ ret' = IF ok THEN "True" ELSE "False"
  /\ UNCHANGED <<app, MODEL_BACKEND, onnx_available, ultralytics_available,
                 onnx_file, model_path, custom_file, image_file, raised,
                 sumVars, cfgVars, handleVars, clfVars, envVars, camVars,
                 is_running, total_ecocoins, detection_history, frame_count,
                 last_detections, pc, key, callbacks, kioskVars>>

\* libcamera-vid exits by itself
LcExit ==
  /\ libcam = "proc_alive"
  /\ libcam' = "proc_exited"
  /\ cam_alive' = FALSE
  /\ UNCHANGED <<app, loadVars, clfVars, is_rpi, picamera2_available,
                 libcamera_available, cap, picam, cam_backend, open_log,
                 stop_calls, stop_ops, loopVars, kioskVars>>

\* LibcameraCapture.stop
LcStop ==
  /\ pc \in {"lc_new", "lc_open", "lc_start_failed", "lc_stopped"}
  /\ stop_calls < MaxStops
  /\ libcam' = StopLibcam(libcam)
  /\ StopLogged
  /\ pc' = "lc_stopped"
  /\ UNCHANGED <<app, loadVars, clfVars, envVars, cap, picam, cam_backend,
                 open_log, is_running, total_ecocoins, detection_history,
                 frame_count, last_detections, key, ret, callbacks,
                 kioskVars>>

NextLibcam ==
  \/ LcConstruct
  \/ LcStart
  \/ LcReadFrame
  \/ LcExit
  \/ LcStop

SpecLibcam == InitLibcam /\ [][NextLibcam]_vars

(***************************************************************************)
(* Claims                                                                  *)
(***************************************************************************)
\* a detection the spec calls qualifying: its category is configured and is
\* not the unknown bucket
IsQualifying(d) ==
  d.waste_category \in DOMAIN WASTE_CATEGORIES /\ d.waste_category # "unknown"

Qualifying(ds) == SelectSeq(ds, IsQualifying)

\* the detections a finished detect call returned
Returned == IF detect_calls > 0 THEN detections ELSE <<>>

\* C1: every detection detect returns has a waste_category that is a key of
\* WASTE_CATEGORIES and is not "unknown"; a raw detection whose label is
\* absent from YOLO_TO_WASTE (a person) is never returned.
C1_OnlyQualifyingReturned ==
  \A i \in 1..Len(Returned) : IsQualifying(Returned[i])

\* C2: when the learned-model pass yields at least one qualifying detection,
\* detect does not invoke _detect_circles and returns no "circle_bottle".
C2_FallbackExclusive ==
  (detect_calls > 0 /\ Qualifying(LearnedPass(model_backend, frame)) # <<>>)
    => /\ ~circles_called
       /\ \A i \in 1..Len(detections) : detections[i].class_name # "circle_bottle"

\* C2 witness: a finished detect call whose learned pass found a qualifying
\* object on a frame that also shows circles.
C2_Witness ==
  /\ detect_calls > 0
  /\ Qualifying(LearnedPass(model_backend, frame)) # <<>>
  /\ frame.circles # <<>>
  /\ ~circles_called

\* C3: with a loaded model and CIRCLE_DETECTION enabled, when the learned
\* pass yields zero qualifying detections the circle detector is invoked,
\* also when the backend reported only a non-waste object such as a person.
C3_FallbackRunsWithoutQualifying ==
  (/\ detect_calls > 0
   /\ is_loaded
   /\ CIRCLE_DETECTION
   /\ Qualifying(LearnedPass(model_backend, frame)) = <<>>)
    => circles_called

\* C4: every returned detection's box lies in the frame and is not empty:
\* 0 <= x1 < x2 <= W and 0 <= y1 < y2 <= H.
BoxInFrame(b, f) ==
  /\ 0 <= b[1] /\ b[1] < b[3] /\ b[3] <= f.w
  /\ 0 <= b[2] /\ b[2] < b[4] /\ b[4] <= f.h

C4_BoxesInFrame ==
  \A i \in 1..Len(Returned) : BoxInFrame(Returned[i].bbox, frame)

\* the last opening attempt succeeded
Opened == open_log # <<>> /\ open_log[Len(open_log)].ok

\* C5: the loop runs (is_running / the frame timer) only after a camera open
\* succeeded; when every mechanism fails, run and start return without
\* raising, never run the loop, read no frame and run no inference.
C5_RunningOnlyAfterOpen ==
  /\ (is_running \/ cam_timer \/ pc = "loop") => Opened
  /\ ~Opened => /\ ret = "none"
                /\ frame_count = 0
                /\ detect_calls = 0
                /\ worker.state = "idle"
                /\ pc \in {"new", "open_failed", "closed"}

\* C5 witness: every mechanism was tried and failed, and the call returned.
C5_Witness ==
  /\ pc = "open_failed"
  /\ Len(open_log) = 3
  /\ \A i \in 1..Len(open_log) : ~open_log[i].ok

\* the mechanisms of the opening attempts, in the order made
LogMechs == [i \in 1..Len(open_log) |-> open_log[i].mech]

\* C6 as stated: _open_camera tries picamera, libcamera, opencv in that
\* order whatever backend was selected, a later one only after the earlier
\* failed, and returns False only if all three failed.
C6_AllThreeInOrder ==
  (app = "camera" /\ pc # "new") =>
    /\ LogMechs = SubSeq(Mechanisms, 1, Len(open_log))
    /\ \A i \in 1..(Len(open_log) - 1) : ~open_log[i].ok
    /\ pc = "open_failed" =>
         /\ Len(open_log) = 3
         /\ \A i \in 1..3 : ~open_log[i].ok

\* the place in Mechanisms of the backend the constructor selected
SelectedIndex ==
  CHOOSE i \in 1..3 :
    Mechanisms[i] = detect_camera_backend(is_rpi, picamera2_available,
                                          libcamera_available)

\* C6 amended: the cascade starts at the selected backend; mechanisms
\* before it are not attempted; a later mechanism is attempted only after
\* the earlier failed; the first success ends it; False is returned only if
\* every mechanism from the selected one onward failed.
C6_CascadeFromSelected ==
  (app = "camera" /\ pc # "new") =>
    /\ Len(open_log) >= 1
    /\ LogMechs = SubSeq(Mechanisms, SelectedIndex,
                         SelectedIndex + Len(open_log) - 1)
    /\ \A i \in 1..(Len(open_log) - 1) : ~open_log[i].ok
    /\ (pc = "open_failed") <=> ~Opened
    /\ pc = "open_failed" => SelectedIndex + Len(open_log) - 1 = 3
    /\ Opened => cam_backend = open_log[Len(open_log)].mech

\* C6 witness: the selected mechanism failed and a later one opened.
C6_Witness ==
  /\ app = "camera"
  /\ pc = "loop"
  /\ Len(open_log) >= 2
  /\ Opened

\* C7: an iteration whose read fails leaves the loop running and the frame
\* counter, the last detections, the coin total and the history unchanged,
\* and invokes neither the classifier nor the callback.
C7_FailedReadSkips ==
  [][ (pc = "loop" /\ ret # "False" /\ ret' = "False") =>
        /\ pc' = "loop"
        /\ UNCHANGED <<frame_count, last_detections, total_ecocoins,
                       detection_history, detect_calls, callbacks,
                       is_running, cam_timer, worker, signals, camVars>> ]_vars

\* C7 witness: a read failed after frames had been read, and the loop is
\* still running.
C7_Witness ==
  /\ pc = "loop"
  /\ ret = "False"
  /\ frame_count > 0
  /\ is_running \/ cam_timer

\* C8: an exception raised by one classifier.detect call is swallowed: the
\* loop keeps running, nothing escapes, the camera stays open.
C8_DetectErrorSwallowed ==
  [][ detect_errors' > detect_errors =>
        /\ pc' = pc
        /\ is_running' = is_running
        /\ cam_timer' = cam_timer
        /\ UNCHANGED <<cap, picam, libcam>> ]_vars

\* C9: a Q press while run is in its loop is eventually observed: the loop
\* ends, stopped, whether the reads succeed or fail.
C9_StopObserved ==
  (app = "camera" /\ pc = "loop" /\ key = "q" /\ frame_count < MaxFrames)
    ~> (pc # "loop" /\ ~is_running)

\* C10: at most one classifier.detect is in flight; a frame handed over
\* while the worker is busy is dropped, so the worker's frame is the one
\* that started the run, and every result emitted belongs to such a frame.
C10_OneInFlight ==
  app = "kiosk" =>
    /\ Len(worker.started) - detect_calls \in {0, 1}
    /\ (Len(worker.started) - detect_calls = 1) <=> (worker.state # "idle")
    /\ worker.state # "idle" =>
         worker.frame.no = worker.started[Len(worker.started)]
    /\ worker.state = "detecting" => worker.arg = worker.frame
    /\ \A i \in 1..Len(signals) :
         \E j \in 1..Len(worker.started) : signals[i].no = worker.started[j]

\* C10 witness: frame 12 was handed over while the run started by frame 6
\* was still detecting, and was dropped.
C10_Witness ==
  /\ app = "kiosk"
  /\ classifier = "loaded"
  /\ frame_count = 2 * KIOSK_DETECT_EVERY
  /\ worker.state = "detecting"
  /\ worker.started = <<KIOSK_DETECT_EVERY>>
  /\ worker.frame.no = KIOSK_DETECT_EVERY

\* C11: once closeEvent has stopped the kiosk loop, a result arriving from
\* the worker is discarded: it changes neither total_ecocoins nor the last
\* detections and awards no coin.
C11_ResultDiscardedAfterStop ==
  [][ (app = "kiosk" /\ pc = "closed") =>
        UNCHANGED <<total_ecocoins, last_detections>> ]_vars

\* C12: the worker thread's own steps (run beginning, run ending) write
\* neither the coin total nor the last detections nor the cooldown; these
\* change only in steps of the UI thread, and the last detections only by
\* taking the oldest result queued for that thread.
C12_OnlyUIThreadWrites ==
  [][ app = "kiosk" =>
        /\ ( \/ (worker.state = "started" /\ worker'.state = "detecting")
             \/ (worker.state = "detecting" /\ worker'.state = "idle") )
             => UNCHANGED <<total_ecocoins, last_detections, coin_cooldown>>
        /\ (total_ecocoins' # total_ecocoins \/ last_detections' # last_detections)
             => worker' = worker
        /\ last_detections' # last_detections
             => /\ signals # <<>>
                /\ last_detections' = Head(signals).detections
                /\ signals' = Tail(signals) ]_vars

\* C12 witness: a run has ended and its result, which shows waste, waits in
\* the UI thread's queue; no coin has been awarded yet.
C12_Witness ==
  /\ app = "kiosk"
  /\ worker.state = "idle"
  /\ signals # <<>>
  /\ WasteFound(Head(signals).detections)
  /\ total_ecocoins = 0
  /\ last_detections = <<>>

\* the step invokes the classifier on the frame it read: in run by calling
\* classifier.detect, in the kiosk by starting a worker run
InferenceStarts ==
  IF app = "camera" THEN detect_calls' = detect_calls + 1
  ELSE Len(worker'.started) = Len(worker.started) + 1

\* C13 as stated: in the loops the frame counter goes up by one per frame
\* read, the classifier is invoked on a frame exactly when the counter after
\* the increment is a multiple of detect_every_n_frames, and on every other
\* frame the last detections stay.
C13_EveryNthFrame ==
  [][ frame_count' # frame_count =>
        /\ frame_count' = frame_count + 1
        /\ InferenceStarts <=> (frame_count' % detect_every_n_frames = 0)
        /\ frame_count' % detect_every_n_frames # 0
             => last_detections' = last_detections ]_vars

\* C13 amended: that holds for CameraDetector.run; in the kiosk the counter
\* also goes up by one per frame read, but a worker run starts exactly on
\* the frames whose number is a multiple of 6 when a classifier is loaded
\* and the worker is idle, and a frame never changes the last detections.
C13_EveryNthFrameOfRun ==
  [][ /\ (ret' = "True" /\ ret # "True") => frame_count' = frame_count + 1
      /\ (app = "camera" /\ detect_calls' # detect_calls)
           => frame_count' = frame_count + 1
      /\ frame_count' # frame_count =>
           /\ frame_count' = frame_count + 1
           /\ ret' = "True"
           /\ app = "camera" =>
                /\ InferenceStarts <=> (frame_count' % detect_every_n_frames = 0)
                /\ frame_count' % detect_every_n_frames # 0
                     => /\ last_detections' = last_detections
                        /\ detect_calls' = detect_calls
           /\ app = "kiosk" =>
                /\ InferenceStarts <=> /\ frame_count' % KIOSK_DETECT_EVERY = 0
                                       /\ classifier # "None"
                                       /\ worker.state = "idle"
                /\ last_detections' = last_detections ]_vars

\* C13 witness: run has read the frame after an inference frame and still
\* shows the detections of that inference.
C13_Witness ==
  /\ app = "camera"
  /\ pc = "loop"
  /\ ret = "True"
  /\ frame_count = detect_every_n_frames + 1
  /\ detect_calls = 1
  /\ last_detections # <<>>

\* C14: in run, on_detection is invoked once for each inference that
\* returned a non-empty list, on the frame of that inference, never for an
\* empty result or on a frame without inference; the callbacks occur in
\* frame order.
C14_CallbackPerNonEmptyResult ==
  [][ app = "camera" =>
        /\ callbacks' # callbacks =>
             /\ callbacks' = Append(callbacks, frame_count')
             /\ frame_count' = frame_count + 1
             /\ detect_calls' = detect_calls + 1
             /\ detect_errors' = detect_errors
             /\ detections' # <<>>
        /\ (detect_calls' = detect_calls + 1 /\ detect_errors' = detect_errors
              /\ detections' # <<>>)
             => callbacks' = Append(callbacks, frame_count')
        /\ \A i, j \in 1..Len(callbacks') : i < j => callbacks'[i] < callbacks'[j]
    ]_vars

\* C14 witness: two inferences were made; the first returned nothing and
\* had no callback, the second returned detections and had one.
C14_Witness ==
  /\ app = "camera"
  /\ detect_calls = 2
  /\ detect_errors = 0
  /\ callbacks = <<2 * detect_every_n_frames>>
  /\ detections # <<>>

\* C15: in every step of a session the coin total does not decrease, the
\* detection history keeps its earlier entries in place and only grows at
\* its end, and the frame counter does not decrease.
C15_SessionMonotone ==
  [][ /\ total_ecocoins' >= total_ecocoins
      /\ frame_count' >= frame_count
      /\ Len(detection_history') >= Len(detection_history)
      /\ SubSeq(detection_history', 1, Len(detection_history))
           = detection_history ]_vars

\* C15 witness: SPACE saved detections twice; the history holds the first
\* save before the second and the total counts both.
C15_Witness ==
  /\ app = "camera"
  /\ Len(detection_history) = 2
  /\ detection_history[1] # detection_history[2]
  /\ total_ecocoins
       = detection_history[1].ecocoin_reward + detection_history[2].ecocoin_reward
  /\ total_ecocoins > 0
  /\ frame_count > detect_every_n_frames

\* the RuntimeError of _detect_model_backend left the constructor
NoBackendError ==
  /\ pc = "construct_failed"
  /\ raised = Error("RuntimeError", "_detect_model_backend", "none")

\* C16: with MODEL_BACKEND "auto", _detect_model_backend returns "onnx" when
\* the ONNX runtime is installed and the model file exists, else "pytorch"
\* when ultralytics is installed, else "onnx" when only the ONNX runtime is
\* installed, else raises its no-backend error; nothing else decides.
C16_BackendSelection ==
  (app = "image" /\ MODEL_BACKEND = "auto"
     /\ pc \in {"constructed", "construct_failed", "image_done", "image_raised"})
    => IF onnx_available /\ onnx_file
         THEN model_backend = "onnx" /\ ~NoBackendError
       ELSE IF ultralytics_available
         THEN model_backend = "pytorch" /\ ~NoBackendError
       ELSE IF onnx_available
         THEN model_backend = "onnx" /\ ~NoBackendError
       ELSE model_backend = "None" /\ NoBackendError

\* C16 witness: only the ONNX runtime is installed and the model file is
\* absent; the constructor chose "onnx".
C16_Witness ==
  /\ MODEL_BACKEND = "auto"
  /\ pc = "construct_failed"
  /\ onnx_available /\ ~onnx_file /\ ~ultralytics_available
  /\ model_backend = "onnx"

\* the runtime library of the backend the constructor selected is missing
RuntimeMissing ==
  \/ model_backend = "None"
  \/ model_backend = "onnx" /\ ~onnx_available
  \/ model_backend = "pytorch" /\ ~ultralytics_available

\* the ONNX backend is selected, its runtime is installed and the model file
\* it would open is absent
ModelMissing ==
  /\ model_backend = "onnx"
  /\ onnx_available
  /\ ~OnnxPathExists(model_path, onnx_file, custom_file)

C18_ImageErrors ==
  (app = "image" /\ pc \in {"image_done", "image_raised"}) =>
    /\ image_file = "missing" =>
         /\ pc = "image_raised"
         /\ raised.type = "FileNotFoundError"
         /\ detect_calls = 0 /\ ~learned_called /\ ~circles_called
    /\ image_file = "undecodable" =>
         /\ pc = "image_raised"
         /\ raised.type = "ValueError"
         /\ detect_calls = 0 /\ ~learned_called /\ ~circles_called
    /\ image_file = "ok" =>
         /\ pc = "image_done"
         /\ raised = NoError
         /\ detect_calls = 1
         /\ detections = detect(is_loaded, model_backend, frame)

\* C18 witness: the file exists and does not decode; ValueError was raised.
C18_Witness ==
  /\ pc = "image_raised"
  /\ image_file = "undecodable"
  /\ raised.type = "ValueError"
  /\ detect_calls = 0

\* C19: with is_loaded false, detect returns an empty list, raises nothing
\* and runs neither the ONNX path, the PyTorch path nor the circle fallback.
C19_UnloadedReturnsEmpty ==
  (app = "image" /\ pc = "image" /\ detect_calls > 0 /\ ~is_loaded) =>
    /\ detections = <<>>
    /\ ~learned_called
    /\ ~circles_called
    /\ detect_errors = 0
    /\ raised = NoError

\* C19 witness: detect was called unloaded on a frame in which both the
\* model and the circle detector would have found something.
C19_Witness ==
  /\ pc = "image"
  /\ detect_calls > 0
  /\ ~is_loaded
  /\ frame.circles # <<>>
  /\ LearnedPass(model_backend, frame) # <<>>

\* the detections of the last detect call in the order they were found: the
\* backend's, then the fallback's
Found == detect_trace(is_loaded, model_backend, frame).found

\* C20: the list detect returns is in non-increasing confidence, holds the
\* detections found, and keeps two of equal confidence in the order in which
\* they were found.
C20_SortedStable ==
  (app = "image" /\ pc = "image" /\ detect_calls > 0) =>
    LET n == Len(detections)
    IN  /\ n = Len(Found)
        /\ \A k \in 1..(n - 1) :
             detections[k].confidence >= detections[k + 1].confidence
        /\ \E p \in [1..n -> 1..n] :
             /\ \A k, l \in 1..n : k # l => p[k] # p[l]
             /\ \A k \in 1..n : detections[k] = Found[p[k]]
             /\ \A k, l \in 1..n :
                  (k < l /\ detections[k].confidence = detections[l].confidence)
                    => p[k] < p[l]

\* C20 witness: two different detections of equal confidence were returned.
C20_Witness ==
  /\ pc = "image"
  /\ detect_calls > 0
  /\ Len(detections) >= 2
  /\ detections[1].confidence = detections[2].confidence
  /\ detections[1] # detections[2]
  /\ detections = Found

\* the indices of ds whose detection is of category c
IndicesOf(ds, c) == {i \in 1..Len(ds) : ds[i].waste_category = c}

\* the sum of ecocoin_reward over the detections of ds at the indices in S
RECURSIVE RewardOver(_, _)
RewardOver(ds, S) ==
  IF S = {} THEN 0
  ELSE LET i == CHOOSE i \in S : TRUE
       IN  ds[i].ecocoin_reward + RewardOver(ds, S \ {i})

\* the sum of a field over the entries of a categories mapping
RECURSIVE SumField(_, _, _)
SumField(categories, field, S) ==
  IF S = {} THEN 0
  ELSE LET c == CHOOSE c \in S : TRUE
       IN  categories[c][field] + SumField(categories, field, S \ {c})

\* C21: get_summary returns total_ecocoins equal to the sum of ecocoin_reward
\* over the list and total_items equal to its length; its categories are
\* those occurring in the list, each with the number and the reward sum of
\* the detections of that category, so the counts sum to total_items and the
\* category rewards to total_ecocoins.
C21_SummaryPartitions ==
  (pc = "summary" /\ summaries # <<>>) =>
    LET s  == summaries[Len(summaries)]
        ds == summary_input
    IN  /\ s.total_items = Len(ds)
        /\ s.total_ecocoins = RewardOver(ds, 1..Len(ds))
        /\ DOMAIN s.categories = {ds[i].waste_category : i \in 1..Len(ds)}
        /\ \A c \in DOMAIN s.categories :
             /\ s.categories[c].count = Cardinality(IndicesOf(ds, c))
             /\ s.categories[c].ecocoins = RewardOver(ds, IndicesOf(ds, c))
        /\ SumField(s.categories, "count", DOMAIN s.categories) = s.total_items
        /\ SumField(s.categories, "ecocoins", DOMAIN s.categories)
             = s.total_ecocoins

\* C21 witness: a summary of three detections, two of one category and one
\* of another whose reward differs.
C21_Witness ==
  /\ pc = "summary"
  /\ summaries # <<>>
  /\ Len(summary_input) = 3
  /\ Cardinality(IndicesOf(summary_input, "bottle")) = 2
  /\ Cardinality(IndicesOf(summary_input, "can")) = 1
  /\ summaries[1].total_ecocoins = 16

\* C22: get_summary on the empty list raises nothing and returns a summary
\* (not None) with total_items 0, total_ecocoins 0 and no category.
C22_EmptySummary ==
  (pc = "summary" /\ summaries # <<>> /\ summary_input = <<>>) =>
    /\ Len(summaries) = 1
    /\ summaries[1].total_items = 0
    /\ summaries[1].total_ecocoins = 0
    /\ DOMAIN summaries[1].categories = {}
    /\ raised = NoError

\* C22 witness: get_summary has returned on the empty list.
C22_Witness ==
  /\ pc = "summary"
  /\ summary_input = <<>>
  /\ Len(summaries) = 1

\* C23: when the learned-model pass ran and yielded no detection, circle
\* detection is enabled and the frame shows k circles, detect returns exactly
\* k detections, each of waste_category "bottle" with confidence 0.55.
C23_CircleFallbackCount ==
  (/\ app = "image" /\ pc = "image"
   /\ detect_calls > 0
   /\ learned_called
   /\ LearnedPass(model_backend, frame) = <<>>
   /\ CIRCLE_DETECTION)
    => /\ circles_called
       /\ Len(detections) = Len(frame.circles)
       /\ \A i \in 1..Len(detections) :
            /\ detections[i].waste_category = "bottle"
            /\ detections[i].confidence = 55
            /\ detections[i].class_name = "circle_bottle"

\* C23 witness: the backend reported something that the learned pass
\* dropped, the frame shows two circles, and detect returned two detections.
C23_Witness ==
  /\ pc = "image"
  /\ detect_calls > 0
  /\ is_loaded
  /\ frame.onnx_output \o frame.boxes # <<>>
  /\ LearnedPass(model_backend, frame) = <<>>
  /\ Len(frame.circles) = 2
  /\ Len(detections) = 2

\* every detection some part of the program holds: the last detect result,
\* the detections shown, the session history, the results queued for the UI
\* thread
Held ==
  {detections[i] : i \in 1..Len(detections)}
    \cup {last_detections[i] : i \in 1..Len(last_detections)}
    \cup {detection_history[i] : i \in 1..Len(detection_history)}
    \cup UNION { {signals[k].detections[i] : i \in 1..Len(signals[k].detections)} :
                 k \in 1..Len(signals) }

\* reward and material are those of the detection's category; the reward is
\* a non-negative integer
InfoFromConfig(d) ==
  /\ d.waste_category \in DOMAIN WASTE_CATEGORIES
  /\ d.ecocoin_reward = WASTE_CATEGORIES[d.waste_category].ecocoin_reward
  /\ d.material = WASTE_CATEGORIES[d.waste_category].material
  /\ d.ecocoin_reward \in Nat

\* C24 as stated: every detection the classifier created, wherever it is
\* held later, carries the ecocoin_reward, the material and the name_uz of
\* WASTE_CATEGORIES[waste_category].
C24_FieldsEqualConfig ==
  \A d \in Held :
    /\ InfoFromConfig(d)
    /\ d.name_uz = WASTE_CATEGORIES[d.waste_category].name_uz

\* C24 amended: reward and material are the category's on all three paths;
\* name_uz is the category's on the ONNX and PyTorch paths and the
\* category's followed by " (yuqoridan)" on the circle fallback; the fields
\* stay so wherever the detection is held afterwards.
C24_FieldsFromConfig ==
  \A d \in Held :
    /\ InfoFromConfig(d)
    /\ d.name_uz = IF d.class_name = "circle_bottle"
                     THEN WASTE_CATEGORIES[d.waste_category].name_uz
                            \o " (yuqoridan)"
                     ELSE WASTE_CATEGORIES[d.waste_category].name_uz

\* C24 witness: with the PyTorch backend, the session history holds a
\* detection of the learned model and one of the circle fallback, both saved
\* with SPACE.
C24_Witness ==
  /\ app = "camera"
  /\ model_backend = "pytorch"
  /\ Len(detection_history) = 2
  /\ detection_history[1].class_name = "Bottle"
  /\ detection_history[2].class_name = "circle_bottle"
  /\ last_detections = <<detection_history[2]>>
  /\ total_ecocoins = 10

\* C25: in WASTE_CATEGORIES "unknown" is present with ecocoin_reward 0, every
\* other category has ecocoin_reward > 0, every category has the fields
\* name_uz and ecocoin_reward, and the table and the class map are, in every
\* state the classifier and the loops reach, what they were when loaded.
C25_TableFixed ==
  /\ "unknown" \in DOMAIN waste_categories
  /\ waste_categories["unknown"].ecocoin_reward = 0
  /\ \A c \in DOMAIN waste_categories :
       /\ {"name_uz", "ecocoin_reward"} \subseteq DOMAIN waste_categories[c]
       /\ c # "unknown" => waste_categories[c].ecocoin_reward > 0
  /\ waste_categories = WASTE_CATEGORIES
  /\ yolo_to_waste = YOLO_TO_WASTE

\* C25 witness: a camera session has run two inferences, saved detections
\* of both and ended.
C25_Witness ==
  /\ app = "camera"
  /\ pc = "done"
  /\ detect_calls = 2
  /\ Len(detection_history) = 2
  /\ total_ecocoins = 10
  /\ DOMAIN waste_categories = {"bottle", "cup", "glass", "can", "unknown"}

\* the calls the step's stop issued
NewStopOps == SubSeq(stop_ops', Len(stop_ops) + 1, Len(stop_ops'))

\* every handle is None or was released by an earlier stop
AllReleased ==
  /\ cap \in {"None", "released"}
  /\ picam \in {"None", "closed"}
  /\ libcam \in {"None", "proc_none"}

\* C26 as stated: every CameraDetector.stop call leaves is_running false and
\* the subprocess handle cleared; a call made when nothing is open (never
\* opened, or released by an earlier stop) leaves the state as it was; and no
\* call issues terminate, kill or release on a handle already released.
C26_StopIdempotent ==
  [][ stop_calls' = stop_calls + 1 =>
        /\ ~is_running'
        /\ libcam' \in {"None", "proc_none"}
        /\ AllReleased => UNCHANGED <<cap, picam, libcam, pc, total_ecocoins,
                                      detection_history>>
        /\ \A k \in 1..Len(NewStopOps) :
             NewStopOps[k].was \notin {"released", "closed", "proc_none"} ]_vars

\* C26 amended: as above for the state; terminate and kill are issued only
\* on a process handle that is not cleared, so at most once per process; but
\* cap.release() and picam.stop()/close() are issued by every call made
\* while the handle is not None, also on a handle already released.
C26_StopSafeAgain ==
  [][ stop_calls' = stop_calls + 1 =>
        /\ ~is_running'
        /\ libcam' \in {"None", "proc_none"}
        /\ AllReleased => UNCHANGED <<cap, picam, libcam, pc, total_ecocoins,
                                      detection_history>>
        /\ \A k \in 1..Len(NewStopOps) :
             NewStopOps[k].on = "process"
               => NewStopOps[k].was \in {"proc_alive", "proc_exited"}
        /\ (\E k \in 1..Len(NewStopOps) : NewStopOps[k].op = "release")
             <=> cap # "None"
        /\ (\E k \in 1..Len(NewStopOps) : NewStopOps[k].op = "stop_close")
             <=> picam # "None"
        /\ Cardinality({k \in 1..Len(stop_ops') : stop_ops'[k].op = "terminate"}) <= 1
     ]_vars

\* C26 witness: run ended on a libcamera camera and stop was called twice
\* more; the process was terminated once.
C26_Witness ==
  /\ app = "camera"
  /\ pc = "done"
  /\ stop_calls = 3
  /\ cam_backend = "libcamera"
  /\ libcam = "proc_none"
  /\ ~is_running
  /\ Cardinality({k \in 1..Len(stop_ops) : stop_ops[k].op = "terminate"}) = 1

\* C27: whenever the constructor returns without raising, is_loaded is true,
\* the handle of the selected backend is set (onnx_session for "onnx", model
\* for "pytorch") and the other is None; when it raises, no classifier
\* object reaches the caller, so none with is_loaded false is ever held.
C27_ConstructedIsLoaded ==
  (app = "image" /\ pc \in {"constructed", "construct_failed", "image_done",
                            "image_raised"}) =>
    /\ pc # "construct_failed" =>
         /\ is_loaded
         /\ classifier = "loaded"
         /\ model_backend \in {"onnx", "pytorch"}
         /\ model_backend = "onnx" =>
              onnx_session = "InferenceSession" /\ model = "None"
         /\ model_backend = "pytorch" =>
              model = "YOLO" /\ onnx_session = "None"
    /\ pc = "construct_failed" =>
         /\ raised # NoError
         /\ classifier = "None"
         /\ model = "None" /\ onnx_session = "None"
    /\ classifier # "None" => is_loaded

\* C27 witness: the ONNX runtime is installed without its model file, so
\* "auto" selected PyTorch; the constructor returned with model set.
C27_Witness ==
  /\ pc = "constructed"
  /\ MODEL_BACKEND = "auto"
  /\ onnx_available /\ ~onnx_file /\ ultralytics_available
  /\ model_backend = "pytorch"
  /\ is_loaded
  /\ model = "YOLO"
  /\ onnx_session = "None"

\* C28: read_frame returns False, raising nothing, when the process has
\* exited or was never started and when a live process delivers fewer bytes
\* than one frame (or the read fails); it returns True on a whole frame of a
\* live process; and no read_frame call terminates the process or changes
\* the process handle, so a read after a failed one succeeds when the
\* process is alive and delivers a frame.
C28_ShortReadTransient ==
  [][ Len(read_log') = Len(read_log) + 1 =>
        LET r == read_log'[Len(read_log')]
        IN  /\ r.process = libcam
            /\ (r.process # "proc_alive" \/ r.bytes # "full")
                 => ~r.ok /\ ret' = "False"
            /\ (r.process = "proc_alive" /\ r.bytes = "full")
                 => r.ok /\ ret' = "True"
            /\ UNCHANGED <<libcam, stop_calls, stop_ops, raised, pc>> ]_vars

\* C28 witness: a short read failed, the next read returned a frame, and
\* the process is alive.
C28_Witness ==
  /\ pc = "lc_open"
  /\ libcam = "proc_alive"
  /\ Len(read_log) = 2
  /\ read_log[1].bytes = "short" /\ ~read_log[1].ok
  /\ read_log[2].bytes = "full" /\ read_log[2].ok
  /\ ret = "True"
  /\ stop_ops = <<>>

\* C29: in CameraDetector, total_ecocoins always equals the sum of
\* ecocoin_reward over detection_history; an iteration that handles SPACE
\* (takes the key from waitKey) with detections shown appends exactly those
\* detections and adds their reward sum; SPACE with nothing shown, S, and
\* every other step change neither.
C29_TotalMatchesHistory ==
  /\ [](app = "camera" =>
          total_ecocoins
            = RewardOver(detection_history, 1..Len(detection_history)))
  /\ [][ app = "camera" =>
           LET saving == /\ key = "space"
                         /\ key' = "none"
                         /\ last_detections' # <<>>
           IN  /\ saving =>
                    /\ detection_history' = detection_history \o last_detections'
                    /\ total_ecocoins' = total_ecocoins
                         + RewardOver(last_detections', 1..Len(last_detections'))
               /\ ~saving => UNCHANGED <<detection_history, total_ecocoins>>
       ]_vars

\* C29 witness: SPACE saved one bottle and later two bottles shown together;
\* the history holds the three and the total is their 15 coins.
C29_Witness ==
  /\ app = "camera"
  /\ Len(detection_history) = 3
  /\ detection_history[2] # detection_history[3]
  /\ total_ecocoins = 15
  /\ last_detections = SubSeq(detection_history, 2, 3)

\* C30: in the kiosk, a step that delivers a detection result changes
\* total_ecocoins only when the cooldown flag was clear and the result
\* holds a detection that is neither "unknown" nor "person"; the change
\* is then exactly + COIN_REWARD, once, however many detections the
\* result holds, and the cooldown flag is set after it; a result that
\* arrives while the flag is set leaves total_ecocoins unchanged; and in
\* the order of awards and timer expiries, between any two awards a
\* detection result triggered there is an expiry of the cooldown timer
C30_DetectionAwardsOncePerCooldown ==
  /\ [](\A i, j \in 1..Len(award_log) :
          (i < j /\ award_log[i] = "detection" /\ award_log[j] = "detection")
            => \E k \in (i + 1)..(j - 1) : award_log[k] = "expiry")
  /\ [][ (app = "kiosk" /\ signals # <<>> /\ signals' = Tail(signals)) =>
           LET result == Head(signals).detections
           IN  /\ total_ecocoins' # total_ecocoins =>
                    /\ ~coin_cooldown
                    /\ \E i \in 1..Len(result) :
                         /\ result[i].waste_category # "unknown"
                         /\ result[i].class_name # "person"
                    /\ total_ecocoins' = total_ecocoins + COIN_REWARD
                    /\ coin_cooldown'
                    /\ award_log' = Append(award_log, "detection")
               /\ coin_cooldown => total_ecocoins' = total_ecocoins
               /\ total_ecocoins' = total_ecocoins =>
                    award_log' = award_log
       ]_vars

\* two results have awarded coins with an expiry of the cooldown timer
\* between them, the later one for a result that holds several detections
C30_Witness ==
  /\ app = "kiosk"
  /\ award_log = <<"detection", "expiry", "detection">>
  /\ total_ecocoins = 2 * COIN_REWARD
  /\ coin_cooldown
  /\ Len(last_detections) >= 2

=============================================================================
